---- MODULE Spec2Model ----
(***************************************************************************)
(* Hummock LSM compaction selector (meta/src/hummock/compaction/           *)
(* level_selector.rs): the level-sizing engine, the priority scorer and    *)
(* the selector facade, with the level handlers and the pickers they       *)
(* drive.                                                                  *)
(*                                                                         *)
(* Sizes are u64 in the source.  TLC integers are 32 bit, so u64::MAX is   *)
(* represented by the largest TLC integer and every size the model draws   *)
(* keeps all products (size * SCORE_BASE, size * multiplier) below it.     *)
(*                                                                         *)
(* Four objects outside the selector follow it, each driven by a           *)
(* specification of its own: the Kafka sink (connector/src/sink/kafka.rs), *)
(* the schema catalog (frontend/src/catalog/schema_catalog.rs),            *)
(* GenerateSeries::eval_row (expr/src/table_function/generate_series.rs)   *)
(* and cache_may_stale (stream/src/cache/mod.rs).                          *)
(***************************************************************************)
EXTENDS Integers, Sequences, FiniteSets, TLC

VARIABLES
    config,     \* DynamicLevelSelectorCore.config (CompactionConfig)
    levels,     \* the Levels snapshot handed to the next tick
    handlers,   \* the caller's LevelHandler array, indexed 0..max_level
    ctx,        \* the SelectContext of the operation just performed, if it built one
    next_task_id, \* the task id the caller hands to the next tick
    selector,   \* the selector object: its kind and the fields try_update compares and replaces
    last,       \* the last operation and what it returned
    sink,       \* the KafkaSink: its fields, the call in progress and what the last call returned
    schema_catalog, \* the SchemaCatalog: its table and index maps
    series,     \* the call of GenerateSeries::eval_row in progress: arguments, cur, builder
    vnodes      \* an executor's vnode bitmaps across scalings and what cache_may_stale said

vars == <<config, levels, handlers, ctx, next_task_id, selector, last,
          sink, schema_catalog, series, vnodes>>

\* the objects outside the compaction selector
components == <<sink, schema_catalog, series, vnodes>>

(***************************************************************************)
(* Constants of the program and bounds of the model.                       *)
(***************************************************************************)
SCORE_BASE == 100

U64_MAX == 2147483647

\* Ticks of a run: each tick is handed the next task id.
MaxTasks == 2

\* L0 sub-levels the snapshot grows to by flushes.
MaxSubLevels == 3

TaskIds == 1..MaxTasks

None == [some |-> FALSE]

(***************************************************************************)
(* Helpers over sequences.                                                 *)
(***************************************************************************)
Max(a, b) == IF a >= b THEN a ELSE b

Min(a, b) == IF a <= b THEN a ELSE b

RECURSIVE SumSeq(_)
SumSeq(s) == IF s = <<>> THEN 0 ELSE Head(s) + SumSeq(Tail(s))

RECURSIVE Concat(_)
Concat(ss) == IF ss = <<>> THEN <<>> ELSE Head(ss) \o Concat(Tail(ss))

FileSizes(files) == [i \in 1..Len(files) |-> files[i].file_size]

FileIds(files) == {files[i].id : i \in 1..Len(files)}

(***************************************************************************)
(* Levels snapshot constructors (tests::generate_level,                    *)
(* tests::push_table_level0_overlapping).                                  *)
(***************************************************************************)
SstableInfo(id, left, right, file_size, table_ids) ==
    [id |-> id, left |-> left, right |-> right, file_size |-> file_size,
     table_ids |-> table_ids]

generate_level(level_idx, table_infos) ==
    [level_idx |-> level_idx,
     table_infos |-> table_infos,
     total_file_size |-> SumSeq(FileSizes(table_infos))]

push_table_level0(lv, sst) ==
    [lv EXCEPT !.l0 =
        [sub_levels |-> Append(lv.l0.sub_levels, generate_level(0, <<sst>>)),
         total_file_size |-> lv.l0.total_file_size + sst.file_size]]

L0Files(lv) ==
    Concat([i \in 1..Len(lv.l0.sub_levels) |-> lv.l0.sub_levels[i].table_infos])

(***************************************************************************)
(* SelectContext::default()                                                *)
(***************************************************************************)
SelectContextDefault ==
    [level_max_bytes |-> <<>>, base_level |-> 0, score_levels |-> <<>>]

(***************************************************************************)
(* DynamicLevelSelectorCore::calculate_level_base_size                     *)
(***************************************************************************)
\* for level in &levels.levels { if total_file_size > 0 && first == 0 { first = level_idx } }
first_non_empty_level(lv) ==
    LET ne == {i \in 1..Len(lv.levels) : lv.levels[i].total_file_size > 0}
    IN  IF ne = {} THEN 0
        ELSE lv.levels[CHOOSE i \in ne : \A j \in ne : i <= j].level_idx

RECURSIVE MaxOfSeq(_)
MaxOfSeq(s) == IF s = <<>> THEN 0 ELSE Max(Head(s), MaxOfSeq(Tail(s)))

max_level_size(lv) ==
    MaxOfSeq([i \in 1..Len(lv.levels) |-> lv.levels[i].total_file_size])

\* one division too many: the range first_non_empty_level..=max_level
RECURSIVE DivTimesInclusive(_, _, _)
DivTimesInclusive(x, m, n) == IF n < 0 THEN x ELSE DivTimesInclusive(x \div m, m, n - 1)

\* cur_level_size /= multiplier, n times
RECURSIVE DivTimes(_, _, _)
DivTimes(x, m, n) == IF n <= 0 THEN x ELSE DivTimes(x \div m, m, n - 1)

\* (level_size as f64 * level_multiplier) as u64: the cast saturates at u64::MAX
SatMul(x, m) == IF x > U64_MAX \div m THEN U64_MAX ELSE x * m

\* level_size after k rounds of the fill loop
RECURSIVE LevelSizeAt(_, _, _)
LevelSizeAt(x, m, k) == IF k <= 0 THEN x ELSE LevelSizeAt(SatMul(x, m), m, k - 1)

\* the same walk without the stop at level 1
RECURSIVE LowerBaseLevelUnguarded(_, _, _, _)
LowerBaseLevelUnguarded(base_level, cur_level_size, base_bytes_max, m) ==
    IF cur_level_size > base_bytes_max
    THEN LowerBaseLevelUnguarded(base_level - 1, cur_level_size \div m, base_bytes_max, m)
    ELSE <<base_level, cur_level_size>>

\* an if in place of the while: the base level is lowered at most once
LowerBaseLevelOnce(base_level, cur_level_size, base_bytes_max, m) ==
    IF base_level > 1 /\ cur_level_size > base_bytes_max
    THEN <<base_level - 1, cur_level_size \div m>>
    ELSE <<base_level, cur_level_size>>

\* while ctx.base_level > 1 && cur_level_size > base_bytes_max { base_level -= 1; cur /= mult }
RECURSIVE LowerBaseLevel(_, _, _, _)
LowerBaseLevel(base_level, cur_level_size, base_bytes_max, m) ==
    IF base_level > 1 /\ cur_level_size > base_bytes_max
    THEN LowerBaseLevel(base_level - 1, cur_level_size \div m, base_bytes_max, m)
    ELSE <<base_level, cur_level_size>>

\* a level capacity that is not floored
NoFloor(level_size, base_bytes_max) == level_size

\* a level capacity that is capped where it should be floored
CapAtBase(level_size, base_bytes_max) == Min(level_size, base_bytes_max)

\* ctx.level_max_bytes[i] = std::cmp::max(level_size, base_bytes_max)
FloorAtBase(level_size, base_bytes_max) == Max(level_size, base_bytes_max)

calculate_level_base_size(lv, cfg) ==
    LET first == first_non_empty_level(lv)
        maxsz == max_level_size(lv)
        base_bytes_max == cfg.max_bytes_for_level_base
        base_bytes_min == base_bytes_max \div cfg.max_bytes_for_level_multiplier
        cur == DivTimes(maxsz, cfg.max_bytes_for_level_multiplier, cfg.max_level - first)
        low == LowerBaseLevel(first, cur, base_bytes_max, cfg.max_bytes_for_level_multiplier)
        base_level == IF cur <= base_bytes_min THEN first ELSE low[1]
        base_level_size == IF cur <= base_bytes_min
                           THEN base_bytes_min + 1
                           ELSE Min(base_bytes_max, low[2])
    IN  IF maxsz = 0
        THEN [level_max_bytes |-> [i \in 0..cfg.max_level |-> U64_MAX],
              base_level |-> cfg.max_level,
              score_levels |-> <<>>]
        ELSE [level_max_bytes |->
                [i \in 0..cfg.max_level |->
                    IF i < base_level THEN U64_MAX
                    ELSE FloorAtBase(LevelSizeAt(base_level_size,
                                                 cfg.max_bytes_for_level_multiplier,
                                                 i - base_level),
                                     base_bytes_max)],
              base_level |-> base_level,
              score_levels |-> <<>>]

(***************************************************************************)
(* LevelHandler.  A handler holds the reservations of one level: one       *)
(* record per add_pending_task call, carrying the task id, the task's      *)
(* target level, the reserved files and their total size.  The pending     *)
(* output of a handler towards a level is the size of the files it holds   *)
(* reserved for tasks that target that level, which is how                 *)
(* get_priority_levels and tests::test_pick_compaction use it.             *)
(***************************************************************************)
LevelHandlerNew == {}

RECURSIVE SumTasks(_)
SumTasks(ts) ==
    IF ts = {} THEN 0
    ELSE LET t == CHOOSE x \in ts : TRUE
         IN  t.total_file_size + SumTasks(ts \ {t})

add_pending_task(handler, task_id, target_level, ssts) ==
    handler \cup {[task_id |-> task_id,
                   target_level |-> target_level,
                   total_file_size |-> SumSeq(FileSizes(ssts)),
                   ssts |-> FileIds(ssts)]}

handler_remove_task(handler, task_id) ==
    {t \in handler : t.task_id # task_id}

compacting_files(handler) == UNION {t.ssts : t \in handler}

\* a handler that reports every file as idle
is_pending_compact_never(handler, sst_id) == FALSE

is_pending_compact(handler, sst_id) == sst_id \in compacting_files(handler)

get_pending_file_count(handler) == Cardinality(compacting_files(handler))

get_pending_output_file_size(handler, target_level) ==
    SumTasks({t \in handler : t.target_level = target_level})

(***************************************************************************)
(* DynamicLevelSelectorCore::get_priority_levels                           *)
(***************************************************************************)
\* an insertion that puts a candidate before the candidates of equal score
RECURSIVE InsertByScoreUnstable(_, _)
InsertByScoreUnstable(sorted, x) ==
    IF sorted = <<>> THEN <<x>>
    ELSE IF Head(sorted)[1] > x[1]
         THEN <<Head(sorted)>> \o InsertByScoreUnstable(Tail(sorted), x)
         ELSE <<x>> \o sorted

\* ctx.score_levels.sort_by(|a, b| b.0.cmp(&a.0)): a stable sort, largest score first
RECURSIVE InsertByScore(_, _)
InsertByScore(sorted, x) ==
    IF sorted = <<>> THEN <<x>>
    ELSE IF Head(sorted)[1] >= x[1]
         THEN <<Head(sorted)>> \o InsertByScore(Tail(sorted), x)
         ELSE <<x>> \o sorted

\* the candidates left in the order they were pushed
Unsorted(s) == s

RECURSIVE SortByScoreDesc(_)
SortByScoreDesc(s) ==
    IF s = <<>> THEN <<>>
    ELSE InsertByScore(SortByScoreDesc(SubSeq(s, 1, Len(s) - 1)), s[Len(s)])

\* Unsigned arithmetic of a build without overflow checks: the result modulo
\* U64_MAX + 1.  A build with overflow checks panics where these wrap.
WrappingSub(a, b) == IF a >= b THEN a - b ELSE U64_MAX - (b - a - 1)

WrappingAdd(a, b) == IF a <= U64_MAX - b THEN a + b ELSE a - (U64_MAX - b) - 1

RECURSIVE WrappingMul(_, _)
WrappingMul(x, m) ==
    IF m = 0 THEN 0
    ELSE IF x <= U64_MAX \div m THEN x * m
    ELSE LET half == WrappingMul(x, m \div 2)
             twice == WrappingAdd(half, half)
         IN  IF m % 2 = 1 THEN WrappingAdd(twice, x) ELSE twice

\* the two L0 candidates pushed whether or not an L0 file is idle
L0ScoreLevelsAlways(lv, hs, cfg, base_level) ==
    << <<0, 0, 0>>,
       <<(lv.l0.total_file_size * SCORE_BASE) \div cfg.max_bytes_for_level_base,
         0, base_level>> >>

\* the intra-L0 score without its cap
L0ScoreLevelsUncapped(lv, hs, cfg, base_level) ==
    LET idle_file_count == WrappingSub(Len(L0Files(lv)), get_pending_file_count(hs[0]))
        total_size == WrappingSub(lv.l0.total_file_size,
                                  get_pending_output_file_size(hs[0], base_level))
        l0_score == WrappingMul(idle_file_count, SCORE_BASE)
                        \div cfg.level0_tier_compact_file_number
        score == WrappingMul(total_size, SCORE_BASE) \div cfg.max_bytes_for_level_base
    IN  IF idle_file_count > 0
        THEN << <<l0_score, 0, 0>>, <<score, 0, base_level>> >>
        ELSE <<>>

\* the L0-to-base score from the whole L0 size, pending output included
L0ScoreLevelsGross(lv, hs, cfg, base_level) ==
    LET idle_file_count == WrappingSub(Len(L0Files(lv)), get_pending_file_count(hs[0]))
        max_l0_score == Max(SCORE_BASE * 2,
                            (Len(lv.l0.sub_levels) * SCORE_BASE)
                                \div cfg.level0_tier_compact_file_number)
        l0_score == WrappingMul(idle_file_count, SCORE_BASE)
                        \div cfg.level0_tier_compact_file_number
        score == WrappingMul(lv.l0.total_file_size, SCORE_BASE)
                     \div cfg.max_bytes_for_level_base
    IN  IF idle_file_count > 0
        THEN << <<Min(l0_score, max_l0_score), 0, 0>>, <<score, 0, base_level>> >>
        ELSE <<>>

\* the L0-to-base candidate pushed whether or not an L0 file is idle
L0ScoreLevelsUnpaired(lv, hs, cfg, base_level) ==
    LET idle_file_count == WrappingSub(Len(L0Files(lv)), get_pending_file_count(hs[0]))
        max_l0_score == Max(SCORE_BASE * 2,
                            (Len(lv.l0.sub_levels) * SCORE_BASE)
                                \div cfg.level0_tier_compact_file_number)
        total_size == WrappingSub(lv.l0.total_file_size,
                                  get_pending_output_file_size(hs[0], base_level))
        l0_score == WrappingMul(idle_file_count, SCORE_BASE)
                        \div cfg.level0_tier_compact_file_number
        score == WrappingMul(total_size, SCORE_BASE) \div cfg.max_bytes_for_level_base
    IN  (IF idle_file_count > 0
         THEN << <<Min(l0_score, max_l0_score), 0, 0>> >>
         ELSE <<>>) \o << <<score, 0, base_level>> >>

\* the two L0 candidates, pushed when an L0 file is idle
L0ScoreLevels(lv, hs, cfg, base_level) ==
    LET idle_file_count == WrappingSub(Len(L0Files(lv)), get_pending_file_count(hs[0]))
        max_l0_score == Max(SCORE_BASE * 2,
                            (Len(lv.l0.sub_levels) * SCORE_BASE)
                                \div cfg.level0_tier_compact_file_number)
        total_size == WrappingSub(lv.l0.total_file_size,
                                  get_pending_output_file_size(hs[0], base_level))
        l0_score == WrappingMul(idle_file_count, SCORE_BASE)
                        \div cfg.level0_tier_compact_file_number
        score == WrappingMul(total_size, SCORE_BASE) \div cfg.max_bytes_for_level_base
    IN  IF idle_file_count > 0
        THEN << <<Min(l0_score, max_l0_score), 0, 0>>, <<score, 0, base_level>> >>
        ELSE <<>>

\* the size of a level's files alone, pending output ignored
LevelTotalSizeGross(level, hs, base_level) == level.total_file_size

\* effective size of a level: its files, plus what is being compacted into it,
\* minus what is being compacted out of it
LevelTotalSize(level, hs, base_level) ==
    LET level_idx == level.level_idx
        upper_level == IF level_idx = base_level THEN 0 ELSE level_idx - 1
    IN  WrappingSub(level.total_file_size
                      + get_pending_output_file_size(hs[upper_level], level_idx),
                    get_pending_output_file_size(hs[level_idx], level_idx + 1))

\* the same loop without the skip of the levels below base_level and of the
\* bottommost level
RECURSIVE LevelScoreLevelsNoSkip(_, _, _, _, _)
LevelScoreLevelsNoSkip(lv, hs, cfg, c, k) ==
    IF k = 0 THEN <<>>
    ELSE LET level == lv.levels[k]
             level_idx == level.level_idx
             total_size == level.total_file_size
             rest == LevelScoreLevelsNoSkip(lv, hs, cfg, c, k - 1)
         IN  IF total_size = 0
             THEN rest
             ELSE Append(rest,
                         <<WrappingMul(total_size, SCORE_BASE)
                               \div c.level_max_bytes[level_idx],
                           level_idx, level_idx + 1>>)

\* the score of a level taken as capacity over size instead of size over capacity
RECURSIVE LevelScoreLevelsInverted(_, _, _, _, _)
LevelScoreLevelsInverted(lv, hs, cfg, c, k) ==
    IF k = 0 THEN <<>>
    ELSE LET level == lv.levels[k]
             level_idx == level.level_idx
             total_size == LevelTotalSize(level, hs, c.base_level)
             rest == LevelScoreLevelsInverted(lv, hs, cfg, c, k - 1)
         IN  IF level_idx < c.base_level \/ level_idx >= cfg.max_level
             THEN rest
             ELSE IF total_size = 0
                  THEN rest
                  ELSE Append(rest,
                              <<WrappingMul(c.level_max_bytes[level_idx], SCORE_BASE)
                                    \div total_size,
                                level_idx, level_idx + 1>>)

\* the candidates of the levels pushed with the level itself as target
RECURSIVE LevelScoreLevelsSameTarget(_, _, _, _, _)
LevelScoreLevelsSameTarget(lv, hs, cfg, c, k) ==
    IF k = 0 THEN <<>>
    ELSE LET level == lv.levels[k]
             level_idx == level.level_idx
             total_size == LevelTotalSize(level, hs, c.base_level)
             rest == LevelScoreLevelsSameTarget(lv, hs, cfg, c, k - 1)
         IN  IF level_idx < c.base_level \/ level_idx >= cfg.max_level
             THEN rest
             ELSE IF total_size = 0
                  THEN rest
                  ELSE Append(rest,
                              <<WrappingMul(total_size, SCORE_BASE)
                                    \div c.level_max_bytes[level_idx],
                                level_idx, level_idx>>)

\* the loop over levels.levels: the candidates of levels 1..=k, in level order
RECURSIVE LevelScoreLevels(_, _, _, _, _)
LevelScoreLevels(lv, hs, cfg, c, k) ==
    IF k = 0 THEN <<>>
    ELSE LET level == lv.levels[k]
             level_idx == level.level_idx
             total_size == LevelTotalSize(level, hs, c.base_level)
             rest == LevelScoreLevels(lv, hs, cfg, c, k - 1)
         IN  IF level_idx < c.base_level \/ level_idx >= cfg.max_level
             THEN rest
             ELSE IF total_size = 0
                  THEN rest
                  ELSE Append(rest,
                              <<WrappingMul(total_size, SCORE_BASE)
                                    \div c.level_max_bytes[level_idx],
                                level_idx, level_idx + 1>>)

get_priority_levels(lv, hs, cfg) ==
    LET c == calculate_level_base_size(lv, cfg)
    IN  [c EXCEPT !.score_levels =
            SortByScoreDesc(L0ScoreLevels(lv, hs, cfg, c.base_level)
                            \o LevelScoreLevels(lv, hs, cfg, c, Len(lv.levels)))]

\* a subtraction of get_priority_levels goes below zero: the idle file count,
\* the L0 size, or the size of a level that is scored
LevelSizeUnderflows(level, hs, cfg, base_level) ==
    LET level_idx == level.level_idx
        upper_level == IF level_idx = base_level THEN 0 ELSE level_idx - 1
    IN  /\ level_idx >= base_level
        /\ level_idx < cfg.max_level
        /\ level.total_file_size + get_pending_output_file_size(hs[upper_level], level_idx)
              < get_pending_output_file_size(hs[level_idx], level_idx + 1)

SubtractWithOverflow(lv, hs, cfg) ==
    LET c == calculate_level_base_size(lv, cfg)
    IN  \/ Len(L0Files(lv)) < get_pending_file_count(hs[0])
        \/ lv.l0.total_file_size < get_pending_output_file_size(hs[0], c.base_level)
        \/ \E k \in 1..Len(lv.levels) :
              LevelSizeUnderflows(lv.levels[k], hs, cfg, c.base_level)

(***************************************************************************)
(* Pickers.  A picker maps (levels, handlers) to a CompactionInput or to   *)
(* None.  A CompactionInput is                                             *)
(*   [some |-> TRUE, input_levels |-> <<[level_idx, table_infos], ...>>,   *)
(*    target_level |-> t].                                                 *)
(* Every L0 sub-level of the model holds one file, so for L0 the file      *)
(* count of a block of sub-levels is its length.                           *)
(***************************************************************************)
InputLevel(level_idx, table_infos) ==
    [level_idx |-> level_idx, table_infos |-> table_infos]

CompactionInput(input_levels, target_level) ==
    [some |-> TRUE, input_levels |-> input_levels, target_level |-> target_level]

\* RangeOverlapStrategy: two key ranges intersect
check_overlap(a, b) == ~(a.right < b.left \/ b.right < a.left)

\* no file of the list is reserved in the handler
AllIdle(handler, files) ==
    \A i \in 1..Len(files) : ~is_pending_compact(handler, files[i].id)

\* the sub-levels lo..hi as input levels of level 0
SubLevelInputs(lv, lo, hi) ==
    [k \in 1..(hi - lo + 1) |->
        InputLevel(0, lv.l0.sub_levels[lo + k - 1].table_infos)]

\* TierCompactionPicker: the last sub-level of the block that starts at lo:
\* contiguous idle sub-levels while the file count stays within the bound
RECURSIVE TierBlockEnd(_, _, _, _, _)
TierBlockEnd(lv, hs, cfg, hi, count) ==
    IF hi + 1 > Len(lv.l0.sub_levels) THEN hi
    ELSE LET next == lv.l0.sub_levels[hi + 1].table_infos
         IN  IF AllIdle(hs[0], next)
                /\ count + Len(next) <= cfg.level0_max_compact_file_number
             THEN TierBlockEnd(lv, hs, cfg, hi + 1, count + Len(next))
             ELSE hi

TierBlockFiles(lv, lo, hi) ==
    Concat([k \in 1..(hi - lo + 1) |-> lv.l0.sub_levels[lo + k - 1].table_infos])

RECURSIVE TierPickFrom(_, _, _, _)
TierPickFrom(lv, hs, cfg, lo) ==
    IF lo > Len(lv.l0.sub_levels) THEN None
    ELSE LET hi == TierBlockEnd(lv, hs, cfg, lo - 1, 0)
         IN  IF hi >= lo
                /\ Len(TierBlockFiles(lv, lo, hi)) >= cfg.level0_tier_compact_file_number
             THEN CompactionInput(SubLevelInputs(lv, lo, hi), 0)
             ELSE TierPickFrom(lv, hs, cfg, lo + 1)

TierCompactionPicker_pick(lv, hs, cfg) == TierPickFrom(lv, hs, cfg, 1)

\* LevelCompactionPicker: the oldest idle block of sub-levels that fits
\* max_compaction_bytes, with the files of the target level it overlaps
RECURSIVE FirstIdleSubLevel(_, _, _)
FirstIdleSubLevel(lv, hs, i) ==
    IF i > Len(lv.l0.sub_levels) THEN 0
    ELSE IF AllIdle(hs[0], lv.l0.sub_levels[i].table_infos) THEN i
         ELSE FirstIdleSubLevel(lv, hs, i + 1)

RECURSIVE LevelBlockEnd(_, _, _, _, _)
LevelBlockEnd(lv, hs, cfg, hi, bytes) ==
    IF hi + 1 > Len(lv.l0.sub_levels) THEN hi
    ELSE LET next == lv.l0.sub_levels[hi + 1]
         IN  IF AllIdle(hs[0], next.table_infos)
                /\ bytes + next.total_file_size <= cfg.max_compaction_bytes
             THEN LevelBlockEnd(lv, hs, cfg, hi + 1, bytes + next.total_file_size)
             ELSE hi

\* the files of a level that overlap one of the given files
OverlapFiles(level, files) ==
    LET Hit(f) == \E i \in 1..Len(files) : check_overlap(f, files[i])
    IN  SelectSeq(level.table_infos, Hit)

\* the union key range of the files, as one range
UnionRange(files) ==
    [left |-> CHOOSE l \in {files[i].left : i \in 1..Len(files)} :
                \A i \in 1..Len(files) : l <= files[i].left,
     right |-> CHOOSE r \in {files[i].right : i \in 1..Len(files)} :
                \A i \in 1..Len(files) : r >= files[i].right]

LevelCompactionPicker_pick(lv, hs, cfg, target_level) ==
    LET lo == FirstIdleSubLevel(lv, hs, 1)
        hi == IF lo = 0 THEN 0 ELSE LevelBlockEnd(lv, hs, cfg, lo - 1, 0)
    IN  IF lo = 0 \/ hi < lo THEN None
        ELSE LET select == TierBlockFiles(lv, lo, hi)
                 target == OverlapFiles(lv.levels[target_level], <<UnionRange(select)>>)
             IN  IF ~AllIdle(hs[target_level], target) THEN None
                 ELSE CompactionInput(
                        Append(SubLevelInputs(lv, lo, hi), InputLevel(target_level, target)),
                        target_level)

\* MinOverlappingPicker: the idle file of the select level whose idle overlap
\* in the target level is smallest relative to its own size
MinOverlapBetter(a, b) ==
    LET ao == a.overlap_size * b.file.file_size
        bo == b.overlap_size * a.file.file_size
    IN  \/ ao < bo
        \/ ao = bo /\ a.overlap_size < b.overlap_size
        \/ ao = bo /\ a.overlap_size = b.overlap_size /\ a.file.id <= b.file.id

MinOverlappingPicker_pick(lv, hs, select_level, target_level) ==
    LET files == lv.levels[select_level].table_infos
        Cand(i) == [file |-> files[i],
                    overlap |-> OverlapFiles(lv.levels[target_level], <<files[i]>>),
                    overlap_size |->
                        SumSeq(FileSizes(OverlapFiles(lv.levels[target_level], <<files[i]>>)))]
        ok == {i \in 1..Len(files) :
                  /\ ~is_pending_compact(hs[select_level], files[i].id)
                  /\ AllIdle(hs[target_level], Cand(i).overlap)}
    IN  IF ok = {} THEN None
        ELSE LET best == CHOOSE i \in ok : \A j \in ok : MinOverlapBetter(Cand(i), Cand(j))
             IN  CompactionInput(
                    <<InputLevel(select_level, <<files[best]>>),
                      InputLevel(target_level, Cand(best).overlap)>>,
                    target_level)

\* ManualCompactionPicker: the files of option.level inside the option's key
\* range (and file list, when one is given), with the files of the target
\* level they overlap; nothing when a file it needs is reserved
ManualWanted(option, files) ==
    LET Want(f) == /\ check_overlap(f, option.key_range)
                   /\ (option.sst_ids = {} \/ f.id \in option.sst_ids)
    IN  SelectSeq(files, Want)

ManualL0Inputs(lv, option) ==
    LET subs == [k \in 1..Len(lv.l0.sub_levels) |->
                    InputLevel(0, ManualWanted(option, lv.l0.sub_levels[k].table_infos))]
        NonEmpty(il) == il.table_infos # <<>>
    IN  SelectSeq(subs, NonEmpty)

ManualCompactionPicker_pick(lv, hs, option, target_level) ==
    LET selects == IF option.level = 0
                   THEN ManualL0Inputs(lv, option)
                   ELSE LET w == ManualWanted(option, lv.levels[option.level].table_infos)
                        IN  IF w = <<>> THEN <<>> ELSE <<InputLevel(option.level, w)>>
        select == Concat([k \in 1..Len(selects) |-> selects[k].table_infos])
        target == IF target_level = option.level THEN <<>>
                  ELSE OverlapFiles(lv.levels[target_level], select)
    IN  IF select = <<>> THEN None
        ELSE IF ~AllIdle(hs[option.level], select) THEN None
        ELSE IF ~AllIdle(hs[target_level], target) THEN None
        ELSE CompactionInput(Append(selects, InputLevel(target_level, target)),
                             target_level)

\* SpaceReclaimCompactionPicker and TtlReclaimCompactionPicker: from the
\* deepest level upward, the first level that holds idle files to reclaim;
\* its files are accumulated in key order until max_space_reclaim_bytes is
\* reached, and are rewritten in place (target level = select level)
\* the files of levels 1..max_level
LevelFiles(lv) == Concat([i \in 1..Len(lv.levels) |-> lv.levels[i].table_infos])

RECURSIVE ReclaimTake(_, _, _)
ReclaimTake(files, bytes, max_bytes) ==
    IF files = <<>> \/ bytes >= max_bytes THEN <<>>
    ELSE <<Head(files)>>
            \o ReclaimTake(Tail(files), bytes + Head(files).file_size, max_bytes)

RECURSIVE ReclaimPickFrom(_, _, _, _, _)
ReclaimPickFrom(lv, hs, max_bytes, reclaimable, level_idx) ==
    IF level_idx < 1 THEN None
    ELSE LET Take(f) == f.id \in reclaimable /\ ~is_pending_compact(hs[level_idx], f.id)
             files == SelectSeq(lv.levels[level_idx].table_infos, Take)
         IN  IF files = <<>>
             THEN ReclaimPickFrom(lv, hs, max_bytes, reclaimable, level_idx - 1)
             ELSE CompactionInput(
                    <<InputLevel(level_idx, ReclaimTake(files, 0, max_bytes))>>,
                    level_idx)

\* every table of the file has been dropped
SpaceReclaimCompactionPicker_pick(lv, hs, max_space_reclaim_bytes, all_table_ids) ==
    LET Dropped(f) == f.table_ids \cap all_table_ids = {}
    IN  ReclaimPickFrom(lv, hs, max_space_reclaim_bytes,
                        FileIds(SelectSeq(LevelFiles(lv), Dropped)), Len(lv.levels))

\* every key of the file has expired: all its tables are past their TTL
TtlReclaimCompactionPicker_pick(lv, hs, max_space_reclaim_bytes, expired_table_ids) ==
    LET Expired(f) == f.table_ids \subseteq expired_table_ids
    IN  ReclaimPickFrom(lv, hs, max_space_reclaim_bytes,
                        FileIds(SelectSeq(LevelFiles(lv), Expired)), Len(lv.levels))

(***************************************************************************)
(* DynamicLevelSelectorCore::create_compaction_picker                      *)
(***************************************************************************)
\* the MinOverlappingPicker built with its two levels in the wrong order
create_compaction_picker_swapped(select_level, target_level) ==
    IF select_level = 0
    THEN IF target_level = 0
         THEN [kind |-> "TierCompactionPicker"]
         ELSE [kind |-> "LevelCompactionPicker", target_level |-> target_level]
    ELSE IF select_level + 1 = target_level
         THEN [kind |-> "MinOverlappingPicker",
               select_level |-> target_level, target_level |-> select_level]
         ELSE [kind |-> "assert_eq failed"]

create_compaction_picker(select_level, target_level) ==
    IF select_level = 0
    THEN IF target_level = 0
         THEN [kind |-> "TierCompactionPicker"]
         ELSE [kind |-> "LevelCompactionPicker", target_level |-> target_level]
    ELSE IF select_level + 1 = target_level
         THEN [kind |-> "MinOverlappingPicker",
               select_level |-> select_level, target_level |-> target_level]
         ELSE [kind |-> "assert_eq failed"]

\* CompactionPicker::pick_compaction, dispatched on the picker built above
picker_pick_compaction(picker, lv, hs, cfg) ==
    CASE picker.kind = "TierCompactionPicker" ->
            TierCompactionPicker_pick(lv, hs, cfg)
      [] picker.kind = "LevelCompactionPicker" ->
            LevelCompactionPicker_pick(lv, hs, cfg, picker.target_level)
      [] picker.kind = "MinOverlappingPicker" ->
            MinOverlappingPicker_pick(lv, hs, picker.select_level, picker.target_level)
      [] OTHER -> None

\* CompactionInput::add_pending_task: reserve every input level's files in
\* the handler of that level, for the input's target level
RECURSIVE input_add_pending_task(_, _, _, _)
input_add_pending_task(input, k, task_id, hs) ==
    IF k > Len(input.input_levels) THEN hs
    ELSE LET il == input.input_levels[k]
         IN  input_add_pending_task(input, k + 1, task_id,
                [hs EXCEPT ![il.level_idx] =
                    add_pending_task(@, task_id, input.target_level, il.table_infos)])

create_compaction_task(cfg, input, base_level, task_type) ==
    [some |-> TRUE,
     input |-> input,
     base_level |-> base_level,
     task_type |-> task_type]

(***************************************************************************)
(* DynamicLevelSelector::pick_compaction.  The result carries the task (or *)
(* None), the handlers as the tick leaves them, the SelectContext, the     *)
(* candidates (by position in score_levels) whose picker was invoked, and  *)
(* selector_stats.skip_picker.                                             *)
(***************************************************************************)
PickResult(task, hs, c, tried, skip_picker, panic) ==
    [task |-> task, handlers |-> hs, ctx |-> c, tried |-> tried,
     skip_picker |-> skip_picker, panic |-> panic]

\* a threshold that lets a score of exactly SCORE_BASE through
BelowScoreBaseStrict(score) == score < SCORE_BASE

\* if score <= SCORE_BASE { return None; }
BelowScoreBase(score) == score <= SCORE_BASE

\* a tick that gives up and clears the handlers on its way out
ReturnNoneResetsHandlers(hs, c, tried, skip_picker) ==
    PickResult(None, [i \in DOMAIN hs |-> LevelHandlerNew], c, tried, skip_picker, FALSE)

\* return None: the handlers are handed back as they came
ReturnNone(hs, c, tried, skip_picker) ==
    PickResult(None, hs, c, tried, skip_picker, FALSE)

\* a tick that returns the task without reserving its input
ReturnTaskUnreserved(cfg, ret, task_id, hs, c, tried, skip_picker, task_type) ==
    PickResult(create_compaction_task(cfg, ret, c.base_level, task_type),
               hs, c, tried, skip_picker, FALSE)

\* a tick that reserves its input on handlers emptied of the earlier tasks
ReturnTaskOnFreshHandlers(cfg, ret, task_id, hs, c, tried, skip_picker, task_type) ==
    PickResult(create_compaction_task(cfg, ret, c.base_level, task_type),
               input_add_pending_task(ret, 1, task_id, [i \in DOMAIN hs |-> LevelHandlerNew]),
               c, tried, skip_picker, FALSE)

\* ret.add_pending_task(task_id, level_handlers);
\* return Some(create_compaction_task(config, ret, ctx.base_level, self.task_type()))
ReturnTask(cfg, ret, task_id, hs, c, tried, skip_picker, task_type) ==
    PickResult(create_compaction_task(cfg, ret, c.base_level, task_type),
               input_add_pending_task(ret, 1, task_id, hs),
               c, tried, skip_picker, FALSE)

\* for (score, select_level, target_level) in ctx.score_levels { ... }
RECURSIVE DynamicPickLoop(_, _, _, _, _, _, _)
DynamicPickLoop(task_id, lv, hs, cfg, c, i, skipped) ==
    LET tried == [k \in 1..(i - 1) |-> k]
    IN  IF i > Len(c.score_levels)
        THEN ReturnNone(hs, c, tried, skipped)
        ELSE LET score == c.score_levels[i][1]
                 select_level == c.score_levels[i][2]
                 target_level == c.score_levels[i][3]
                 picker == create_compaction_picker(select_level, target_level)
                 ret == picker_pick_compaction(picker, lv, hs, cfg)
             IN  IF BelowScoreBase(score)
                 THEN ReturnNone(hs, c, tried, skipped)
                 ELSE IF picker.kind = "assert_eq failed"
                 THEN PickResult(None, hs, c, Append(tried, i), skipped, TRUE)
                 ELSE IF ret.some
                 THEN ReturnTask(cfg, ret, task_id, hs, c, Append(tried, i), skipped,
                                 "Dynamic")
                 ELSE DynamicPickLoop(task_id, lv, hs, cfg, c, i + 1,
                        Append(skipped, <<select_level, target_level>>))

\* the tick of a build with overflow checks panics in get_priority_levels when
\* a subtraction goes below zero; a build without them goes on with the
\* wrapped value
DynamicLevelSelector_pick_compaction(task_id, lv, hs, cfg, overflow_checks) ==
    IF overflow_checks /\ SubtractWithOverflow(lv, hs, cfg)
    THEN PickResult(None, hs, calculate_level_base_size(lv, cfg), <<>>, <<>>, TRUE)
    ELSE DynamicPickLoop(task_id, lv, hs, cfg, get_priority_levels(lv, hs, cfg), 1, <<>>)

(***************************************************************************)
(* ManualCompactionSelector::pick_compaction                               *)
(***************************************************************************)
\* the target level without the case of L0: always the next level down
ManualTargetLevelNoBase(option, cfg, base_level) ==
    IF option.level = cfg.max_level THEN option.level
    ELSE option.level + 1

ManualTargetLevel(option, cfg, base_level) ==
    IF option.level = 0 THEN base_level
    ELSE IF option.level = cfg.max_level THEN option.level
    ELSE option.level + 1

\* the picker built whatever the requested level
ManualSelectorPickerAnyLevel(lv, cfg, option) ==
    LET c == calculate_level_base_size(lv, cfg)
    IN  [some |-> TRUE, option |-> option,
         target_level |-> ManualTargetLevel(option, cfg, c.base_level)]

\* the picker the manual selector builds for a tick, none when it returns
\* before building one
ManualSelectorPicker(lv, cfg, option) ==
    LET c == calculate_level_base_size(lv, cfg)
        target_level == ManualTargetLevel(option, cfg, c.base_level)
    IN  IF option.level > 0 /\ option.level < c.base_level
        THEN [some |-> FALSE]
        ELSE [some |-> TRUE, option |-> option, target_level |-> target_level]

ManualCompactionSelector_pick_compaction(task_id, lv, hs, cfg, option) ==
    LET c == calculate_level_base_size(lv, cfg)
        picker == ManualSelectorPicker(lv, cfg, option)
        ret == ManualCompactionPicker_pick(lv, hs, picker.option, picker.target_level)
    IN  IF ~picker.some
        THEN ReturnNone(hs, c, <<>>, <<>>)
        ELSE IF ret.some
        THEN ReturnTask(cfg, ret, task_id, hs, c, <<1>>, <<>>, "Manual")
        ELSE ReturnNone(hs, c, <<1>>, <<>>)

(***************************************************************************)
(* SpaceReclaimCompactionSelector::pick_compaction                         *)
(***************************************************************************)
SpaceReclaimCompactionSelector_pick_compaction(task_id, lv, hs, cfg, all_table_ids) ==
    LET c == calculate_level_base_size(lv, cfg)
        ret == SpaceReclaimCompactionPicker_pick(lv, hs, cfg.max_space_reclaim_bytes,
                                                 all_table_ids)
    IN  IF ret.some
        THEN ReturnTask(cfg, ret, task_id, hs, c, <<1>>, <<>>, "SpaceReclaim")
        ELSE ReturnNone(hs, c, <<1>>, <<>>)

(***************************************************************************)
(* TtlCompactionSelector::pick_compaction                                  *)
(***************************************************************************)
\* the ttl tick that labels its task as a space reclaim
TtlPickAsSpaceReclaim(task_id, lv, hs, cfg, expired_table_ids) ==
    LET c == calculate_level_base_size(lv, cfg)
        ret == TtlReclaimCompactionPicker_pick(lv, hs, cfg.max_space_reclaim_bytes,
                                               expired_table_ids)
    IN  IF ret.some
        THEN ReturnTask(cfg, ret, task_id, hs, c, <<1>>, <<>>, "SpaceReclaim")
        ELSE ReturnNone(hs, c, <<1>>, <<>>)

TtlCompactionSelector_pick_compaction(task_id, lv, hs, cfg, expired_table_ids) ==
    LET c == calculate_level_base_size(lv, cfg)
        ret == TtlReclaimCompactionPicker_pick(lv, hs, cfg.max_space_reclaim_bytes,
                                               expired_table_ids)
    IN  IF ret.some
        THEN ReturnTask(cfg, ret, task_id, hs, c, <<1>>, <<>>, "Ttl")
        ELSE ReturnNone(hs, c, <<1>>, <<>>)

(***************************************************************************)
(* Inputs.  Configurations are valid (max_level >= 1, multiplier >= 2,     *)
(* base > 0, level0_tier_compact_file_number >= 2); levels 1..max_level    *)
(* are non-overlapping and sorted by key; file ids are unique.             *)
(***************************************************************************)
CompactionConfig(max_level, base, multiplier, tier_files) ==
    [max_level |-> max_level,
     max_bytes_for_level_base |-> base,
     max_bytes_for_level_multiplier |-> multiplier,
     level0_tier_compact_file_number |-> tier_files,
     level0_max_compact_file_number |-> 100,
     max_compaction_bytes |-> 10000,
     max_space_reclaim_bytes |-> 300,
     compaction_mode |-> "Range"]

EmptyL0 == [sub_levels |-> <<>>, total_file_size |-> 0]

EmptyHandlers(cfg) == [i \in 0..cfg.max_level |-> LevelHandlerNew]

\* the key slots of a non-overlapping level: slot k holds the keys of table k
Slot(k) == [left |-> 5 * (k - 1), right |-> 5 * k - 1]

\* the file of level i in slot k
SlotFile(i, k, size) == SstableInfo(10 * i + k, Slot(k).left, Slot(k).right, size, {k})

\* a level of count files of one size, in slots 1..count
LevelOf(i, count, size) == generate_level(i, [k \in 1..count |-> SlotFile(i, k, size)])

\* the snapshot with an empty L0 whose level i has shape[i] = <<count, size>>
SnapshotOf(cfg, shape) ==
    [l0 |-> EmptyL0,
     levels |-> [i \in 1..cfg.max_level |-> LevelOf(i, shape[i][1], shape[i][2])]]

\* the snapshot after n flushes of a file that spans every key slot
RECURSIVE WithL0(_, _)
WithL0(lv, n) ==
    IF n = 0 THEN lv
    ELSE LET below == WithL0(lv, n - 1)
         IN  push_table_level0(below,
                SstableInfo(100 + Len(below.l0.sub_levels) + 1, 0, 9, 60, {1, 2}))

SelectorConfigs == {CompactionConfig(3, 100, 5, 2)}

SelectorShapes == {<<0, 0>>, <<1, 300>>, <<2, 60>>}

SelectorSnapshots(cfg) ==
    {SnapshotOf(cfg, shape) : shape \in [1..cfg.max_level -> SelectorShapes]}

\* the files a flush may add to L0
FlushRanges == {<<0, 4>>, <<0, 9>>}

\* sst ids are never reused while a file or a reservation still names them
NextSstId(lv, hs) ==
    LET used == {100} \cup FileIds(L0Files(lv)) \cup compacting_files(hs[0])
    IN  1 + CHOOSE id \in used : \A other \in used : other <= id

FlushFile(lv, hs, range) ==
    SstableInfo(NextSstId(lv, hs), range[1], range[2], 60,
                {k \in 1..2 : check_overlap(Slot(k), [left |-> range[1], right |-> range[2]])})

SizingConfigs ==
    {CompactionConfig(ml, base, mult, 2) :
        ml \in 1..4, base \in {1, 100, 200}, mult \in {2, 5}}

SizingShapes ==
    {<<0, 0>>} \cup {<<1, sz>> : sz \in {50, 250, 300, 1000, 1200, 3000}}

SizingSnapshots(cfg) ==
    {WithL0(SnapshotOf(cfg, shape), n) :
        shape \in [1..cfg.max_level -> SizingShapes], n \in {0, 3}}

(***************************************************************************)
(* The selector driven by its caller: ticks of the dynamic selector with a *)
(* fresh task id, remove_task on every handler, and flushes that add an    *)
(* L0 sub-level to the snapshot.                                           *)
(***************************************************************************)
LastOp(op, task_id, r) ==
    [op |-> op, selector |-> "", task_id |-> task_id, task |-> r.task,
     tried |-> r.tried, skip_picker |-> r.skip_picker, panic |-> r.panic,
     before |-> <<>>, option |-> [variant |-> ""]]

\* what a tick of the named selector returned, with the handlers it started from
LastTick(name, task_id, r) ==
    [LastOp("pick_compaction", task_id, r) EXCEPT !.selector = name,
                                                  !.before = handlers]

\* the handlers a task was reserved on, kept when the task is removed right
\* after the tick that returned it
BeforeTask(task_id) ==
    IF last.op = "pick_compaction" /\ last.task.some /\ last.task_id = task_id
    THEN last.before
    ELSE <<>>

\* remove_task(task_id) on the handler of the first level only
RemoveTaskFirstLevelOnly(hs, task_id) ==
    [i \in DOMAIN hs |-> IF i = 0 THEN handler_remove_task(hs[i], task_id) ELSE hs[i]]

\* remove_task(task_id) on the handler of every level
RemoveTaskEveryLevel(hs, task_id) ==
    [i \in DOMAIN hs |-> handler_remove_task(hs[i], task_id)]

\* the options a manual compaction is requested with
ManualOptions(cfg) ==
    {[level |-> l, key_range |-> [left |-> 0, right |-> 9], sst_ids |-> {}] :
        l \in 0..cfg.max_level}
      \cup {[level |-> 1, key_range |-> Slot(2), sst_ids |-> {}]}

\* the sets of live tables a space reclaim runs with
LiveTableIdSets == {{}, {1}}

\* the sets of tables past their TTL a ttl reclaim finds
ExpiredTableIdSets == {{2}, {1, 2}}

NoResult(hs, c) == PickResult(None, hs, c, <<>>, <<>>, FALSE)

(***************************************************************************)
(* The selector objects.  A selector is                                    *)
(*   [kind, config, overlap_strategy, option, all_table_ids,               *)
(*    max_space_reclaim_bytes]                                             *)
(* where a field its kind does not have is empty.  A SelectorOption is     *)
(*   [variant, compaction_config, option, all_table_ids].                  *)
(***************************************************************************)
SelectorKinds == {"Dynamic", "Manual", "SpaceReclaim", "Ttl"}

\* the manual option of a selector or selector option that has none
NoOption == [level |-> 0, key_range |-> [left |-> 0, right |-> 0], sst_ids |-> {0}]

create_overlap_strategy(compaction_mode) ==
    IF compaction_mode = "Range" THEN "RangeOverlapStrategy" ELSE "HashStrategy"

DynamicLevelSelector_new(cfg, overlap_strategy) ==
    [kind |-> "Dynamic", config |-> cfg, overlap_strategy |-> overlap_strategy,
     option |-> NoOption, all_table_ids |-> {}, max_space_reclaim_bytes |-> 0]

ManualCompactionSelector_new(cfg, overlap_strategy, option) ==
    [kind |-> "Manual", config |-> cfg, overlap_strategy |-> overlap_strategy,
     option |-> option, all_table_ids |-> {}, max_space_reclaim_bytes |-> 0]

SpaceReclaimCompactionSelector_new(selector_option) ==
    [kind |-> "SpaceReclaim", config |-> selector_option.compaction_config,
     overlap_strategy |-> "", option |-> NoOption,
     all_table_ids |-> selector_option.all_table_ids,
     max_space_reclaim_bytes |-> selector_option.compaction_config.max_space_reclaim_bytes]

TtlCompactionSelector_new(cfg) ==
    [kind |-> "Ttl", config |-> cfg, overlap_strategy |-> "", option |-> NoOption,
     all_table_ids |-> {}, max_space_reclaim_bytes |-> cfg.max_space_reclaim_bytes]

SelectorOption(variant, cfg, option, all_table_ids) ==
    [variant |-> variant, compaction_config |-> cfg, option |-> option,
     all_table_ids |-> all_table_ids]

\* an accessor that hands out the payload of any variant
as_any_variant(selector_option, variant) == [some |-> TRUE, o |-> selector_option]

\* as_dynamic, as_manual, as_space_reclaim, as_ttl: Some(o.clone()) for the
\* variant asked for, None for every other
as_variant(selector_option, variant) ==
    IF selector_option.variant = variant
    THEN [some |-> TRUE, o |-> selector_option]
    ELSE None

\* update_impl of each selector
update_impl(sel, o) ==
    CASE sel.kind = "Dynamic" ->
            [sel EXCEPT !.config = o.compaction_config,
                        !.overlap_strategy =
                            create_overlap_strategy(o.compaction_config.compaction_mode)]
      [] sel.kind = "Manual" ->
            [sel EXCEPT !.config = o.compaction_config,
                        !.option = o.option,
                        !.overlap_strategy =
                            create_overlap_strategy(o.compaction_config.compaction_mode)]
      [] sel.kind = "SpaceReclaim" ->
            [sel EXCEPT !.config = o.compaction_config,
                        !.max_space_reclaim_bytes =
                            o.compaction_config.max_space_reclaim_bytes,
                        !.all_table_ids = o.all_table_ids]
      [] sel.kind = "Ttl" ->
            [sel EXCEPT !.config = o.compaction_config,
                        !.max_space_reclaim_bytes =
                            o.compaction_config.max_space_reclaim_bytes]

\* a comparison that looks at the configuration only
NeedsUpdateConfigOnly(sel, o) == sel.config # o.compaction_config

\* the condition under which try_update calls update_impl
NeedsUpdate(sel, o) ==
    CASE sel.kind = "Dynamic" -> sel.config # o.compaction_config
      [] sel.kind = "Manual" ->
            sel.config # o.compaction_config \/ sel.option # o.option
      [] sel.kind = "SpaceReclaim" ->
            sel.config # o.compaction_config \/ sel.all_table_ids # o.all_table_ids
      [] sel.kind = "Ttl" -> sel.config # o.compaction_config

\* an update that runs on every call and derives the overlap strategy from the
\* configuration it is about to replace
UpdateAlwaysStale(sel, o) ==
    IF sel.kind \in {"Dynamic", "Manual"}
    THEN [update_impl(sel, o) EXCEPT
            !.overlap_strategy = create_overlap_strategy(sel.config.compaction_mode)]
    ELSE update_impl(sel, o)

\* if <differs> { self.update_impl(selector_option) }
UpdateIfNeeded(sel, o) == IF NeedsUpdate(sel, o) THEN update_impl(sel, o) ELSE sel

\* try_update: [panic, selector]; expect() panics on None before the selector
\* is touched
try_update(sel, selector_option) ==
    LET got == as_variant(selector_option, sel.kind)
    IN  IF ~got.some
        THEN [panic |-> TRUE, selector |-> sel]
        ELSE [panic |-> FALSE, selector |-> UpdateIfNeeded(sel, got.o)]

(***************************************************************************)
(* KafkaSink (connector/src/sink/kafka.rs).  The methods are async: each   *)
(* one runs to its next await of the producer, so a call is a frame that   *)
(* advances by one attempt of its retry loop at a time.  The methods take  *)
(* &mut self, so one call is in progress at most.  What the producer       *)
(* answers is not the sink's choice.                                       *)
(***************************************************************************)
\* retry.max and the epochs a behaviour draws from
MaxRetryNum == 2

MaxEpoch == 1

KafkaConfig(max_retry_num, use_transaction) ==
    [max_retry_num |-> max_retry_num, use_transaction |-> use_transaction]

KafkaConfigs == {KafkaConfig(n, t) : n \in 0..MaxRetryNum, t \in BOOLEAN}

Epochs == 0..MaxEpoch

Records == {"r1", "r2"}

KafkaSinkState_Init == [tag |-> "Init", epoch |-> 0]

KafkaSinkState_Running(epoch) == [tag |-> "Running", epoch |-> epoch]

\* Option<u64>
NoEpoch == [some |-> FALSE, epoch |-> 0]

SomeEpoch(epoch) == [some |-> TRUE, epoch |-> epoch]

\* the errors the producer reports, told apart as send tells them apart
ProducerErrors == {"QueueFull", "Transaction"}

TransactionOps == {"start_transaction", "commit_transaction", "abort_transaction"}

\* what a call of the conductor may answer
ConductorResults(cfg, op) ==
    IF op \in TransactionOps /\ ~cfg.use_transaction
    THEN {"Ok"}
    ELSE {"Ok"} \cup ProducerErrors

\* no call in progress
NoFrame ==
    [method |-> "", op |-> "", attempts |-> 0, err |-> "", record |-> "", calls |-> <<>>]

\* let mut err = KafkaError::Canceled, before the first round of the loop
RetryLoop(method, op, record) ==
    [method |-> method, op |-> op, attempts |-> 0, err |-> "Canceled", record |-> record,
     calls |-> <<>>]

NoLoop == [op |-> "", result |-> "", calls |-> <<>>, record |-> ""]

NoReturn == [method |-> "", result |-> ""]

KafkaSink_new(cfg) ==
    [config |-> cfg,
     state |-> KafkaSinkState_Init,
     in_transaction_epoch |-> NoEpoch,
     frame |-> NoFrame,
     finished_loop |-> NoLoop,
     returned |-> NoReturn]

\* a retry loop that runs one round more than retry.max
RetryBudgetPlusOne(cfg) == cfg.max_retry_num + 1

\* for _ in 0..self.config.max_retry_num
RetryBudget(cfg) == cfg.max_retry_num

\* a send that retries whatever the producer reported
SendRetriesAny(err) == TRUE

\* if let KafkaError::MessageProduction(RDKafkaErrorCode::QueueFull) = err
SendRetries(err) == err = "QueueFull"

\* a producer that hands back another record than it was given
ReturnedRecordOther(record) == CHOOSE r \in Records : r # record

\* Err((e, rec)): the producer hands the record back
ReturnedRecord(record) == record

\* the method returns result; the frame is dropped
Return(s, result) ==
    [s EXCEPT !.frame = NoFrame,
              !.returned = [method |-> s.frame.method, result |-> result]]

\* a commit that keeps the epoch in progress
CommitTakeKeepsEpoch(s) ==
    IF s.in_transaction_epoch.some
    THEN Return([s EXCEPT !.state = KafkaSinkState_Running(s.in_transaction_epoch.epoch)],
                "Ok")
    ELSE Return(s, "Canceled")

\* a commit that takes epoch 0 when none is in progress
CommitTakeOrZero(s) ==
    Return([s EXCEPT !.state = KafkaSinkState_Running(s.in_transaction_epoch.epoch),
                     !.in_transaction_epoch = NoEpoch],
           "Ok")

\* if let Some(epoch) = self.in_transaction_epoch.take() { .. } else { return Err(..) }
CommitTake(s) ==
    IF s.in_transaction_epoch.some
    THEN Return([s EXCEPT !.state = KafkaSinkState_Running(s.in_transaction_epoch.epoch),
                          !.in_transaction_epoch = NoEpoch],
                "Ok")
    ELSE Return(s, "Canceled")

\* an abort that clears nothing
AbortKeepsEpoch(s) == Return(s, "Ok")

\* self.in_transaction_epoch = None; Ok(())
AbortClear(s) == Return([s EXCEPT !.in_transaction_epoch = NoEpoch], "Ok")

\* the method of the frame after its retry loop returned loop.result: `?`
\* returns an error to the caller, Ok goes on with the method's next line
AfterLoop(s, loop) ==
    LET done == [s EXCEPT !.finished_loop = loop]
    IN  IF loop.result # "Ok" THEN Return(done, loop.result)
        ELSE IF loop.op = "flush"
             THEN [done EXCEPT !.frame = RetryLoop("commit", "commit_transaction", "")]
        ELSE IF loop.op = "commit_transaction" THEN CommitTake(done)
        ELSE IF loop.op = "abort_transaction" THEN AbortClear(done)
        ELSE Return(done, "Ok")

\* one round of the loop of do_with_retry: f(&self.conductor).await answered
\* result
do_with_retry_round(s, result) ==
    LET f == s.frame
        calls == Append(f.calls, [result |-> result, record |-> ""])
    IN  IF result = "Ok"
        THEN AfterLoop(s, [op |-> f.op, result |-> "Ok", calls |-> calls, record |-> ""])
        ELSE [s EXCEPT !.frame = [f EXCEPT !.attempts = @ + 1, !.err = result,
                                           !.calls = calls]]

\* one round of the loop of send: self.conductor.send(record).await answered
\* result
send_round(s, result) ==
    LET f == s.frame
        calls == Append(f.calls, [result |-> result, record |-> f.record])
    IN  IF result = "Ok"
        THEN AfterLoop(s, [op |-> "send", result |-> "Ok", calls |-> calls,
                           record |-> f.record])
        ELSE IF SendRetries(result)
        THEN [s EXCEPT !.frame = [f EXCEPT !.attempts = @ + 1, !.err = result,
                                           !.record = ReturnedRecord(f.record),
                                           !.calls = calls]]
        ELSE AfterLoop(s, [op |-> "send", result |-> result, calls |-> calls,
                           record |-> f.record])

\* Err(err) after the last round of either loop
loop_exhausted(s) ==
    AfterLoop(s, [op |-> s.frame.op, result |-> s.frame.err, calls |-> s.frame.calls,
                  record |-> s.frame.record])

begin_epoch(s, epoch) ==
    [s EXCEPT !.in_transaction_epoch = SomeEpoch(epoch),
              !.frame = RetryLoop("begin_epoch", "start_transaction", "")]

commit(s) == [s EXCEPT !.frame = RetryLoop("commit", "flush", "")]

abort(s) == [s EXCEPT !.frame = RetryLoop("abort", "abort_transaction", "")]

send(s, record) == [s EXCEPT !.frame = RetryLoop("send", "send", record)]

(***************************************************************************)
(* SchemaCatalog (frontend/src/catalog/schema_catalog.rs): the table and   *)
(* index maps.  A map is a function on the keys it holds.  A catalog entry *)
(* is shared by Arc, so an index keeps the primary table it was built on.  *)
(* panic names the call that panicked and where; a panicked catalog takes  *)
(* no further call.                                                        *)
(***************************************************************************)
MaxTables == 2

MaxIndexes == 2

CatalogTableIds == 1..MaxTables

TableNames == {<<"t", k>> : k \in 1..MaxTables}

IndexIds == 1..MaxIndexes

IndexNames == {<<"i", k>> : k \in 1..MaxIndexes}

\* HashMap::new()
EmptyMap == [k \in {} |-> 0]

\* HashMap::insert on a vacant key
MapInsert(m, key, value) == [k \in DOMAIN m \cup {key} |-> IF k = key THEN value ELSE m[k]]

\* HashMap::remove
MapRemove(m, key) == [k \in DOMAIN m \ {key} |-> m[k]]

TableCatalog(id, name) == [id |-> id, name |-> name]

\* IndexCatalog::build_from(prost, index_table, primary_table)
IndexCatalog(id, name, index_table, primary_table) ==
    [id |-> id, name |-> name, index_table |-> index_table, primary_table |-> primary_table]

NoPanic == [op |-> "", at |-> ""]

SchemaCatalog_new ==
    [table_by_name |-> EmptyMap,
     table_by_id |-> EmptyMap,
     index_by_name |-> EmptyMap,
     index_by_id |-> EmptyMap,
     indexes_by_table_id |-> EmptyMap,
     panic |-> NoPanic,
     call |-> [op |-> "new", id |-> 0]]

Panicked(c, op, at) == [c EXCEPT !.panic = [op |-> op, at |-> at]]

create_table(c, id, name) ==
    IF name \in DOMAIN c.table_by_name
    THEN Panicked(c, "create_table", "table_by_name.try_insert")
    ELSE LET table_ref == TableCatalog(id, name)
             named == [c EXCEPT !.table_by_name = MapInsert(@, name, table_ref)]
         IN  IF id \in DOMAIN c.table_by_id
             THEN Panicked(named, "create_table", "table_by_id.try_insert")
             ELSE [named EXCEPT !.table_by_id = MapInsert(@, id, table_ref)]

drop_table(c, id) ==
    IF id \notin DOMAIN c.table_by_id
    THEN Panicked(c, "drop_table", "table_by_id.remove")
    ELSE LET table_ref == c.table_by_id[id]
             removed == [c EXCEPT !.table_by_id = MapRemove(@, id)]
         IN  IF table_ref.name \notin DOMAIN c.table_by_name
             THEN Panicked(removed, "drop_table", "table_by_name.remove")
             ELSE [removed EXCEPT
                      !.table_by_name = MapRemove(@, table_ref.name),
                      !.indexes_by_table_id = MapRemove(@, table_ref.id)]

create_index(c, id, name, index_table_id, primary_table_id) ==
    IF index_table_id \notin DOMAIN c.table_by_id
    THEN Panicked(c, "create_index", "get_table_by_id(index_table_id)")
    ELSE IF primary_table_id \notin DOMAIN c.table_by_id
    THEN Panicked(c, "create_index", "get_table_by_id(primary_table_id)")
    ELSE IF name \in DOMAIN c.index_by_name
    THEN Panicked(c, "create_index", "index_by_name.try_insert")
    ELSE LET index_ref == IndexCatalog(id, name, c.table_by_id[index_table_id],
                                       c.table_by_id[primary_table_id])
             named == [c EXCEPT !.index_by_name = MapInsert(@, name, index_ref)]
             key == index_ref.primary_table.id
         IN  IF id \in DOMAIN c.index_by_id
             THEN Panicked(named, "create_index", "index_by_id.try_insert")
             ELSE [named EXCEPT
                      !.index_by_id = MapInsert(@, id, index_ref),
                      !.indexes_by_table_id =
                          IF key \in DOMAIN @
                          THEN [@ EXCEPT ![key] = Append(@, index_ref)]
                          ELSE MapInsert(@, key, <<index_ref>>)]

\* iter().position(|x| x.id == id): 0 stands for None
RECURSIVE PositionFrom(_, _, _)
PositionFrom(v, id, k) ==
    IF k > Len(v) THEN 0
    ELSE IF v[k].id = id THEN k
    ELSE PositionFrom(v, id, k + 1)

Position(v, id) == PositionFrom(v, id, 1)

\* Vec::remove(pos)
VecRemove(v, pos) == SubSeq(v, 1, pos - 1) \o SubSeq(v, pos + 1, Len(v))

drop_index(c, id) ==
    IF id \notin DOMAIN c.index_by_id
    THEN Panicked(c, "drop_index", "index_by_id.remove")
    ELSE LET index_ref == c.index_by_id[id]
             removed == [c EXCEPT !.index_by_id = MapRemove(@, id)]
             key == index_ref.primary_table.id
         IN  IF index_ref.name \notin DOMAIN c.index_by_name
             THEN Panicked(removed, "drop_index", "index_by_name.remove")
             ELSE LET unnamed == [removed EXCEPT
                                     !.index_by_name = MapRemove(@, index_ref.name)]
                  IN  IF key \notin DOMAIN c.indexes_by_table_id
                      THEN Panicked(unnamed, "drop_index", "unreachable")
                      ELSE LET pos == Position(c.indexes_by_table_id[key], index_ref.id)
                           IN  IF pos = 0
                               THEN Panicked(unnamed, "drop_index", "position.unwrap")
                               ELSE [unnamed EXCEPT !.indexes_by_table_id[key] =
                                                        VecRemove(@, pos)]

(***************************************************************************)
(* GenerateSeries::eval_row (expr/src/table_function/generate_series.rs)   *)
(* at T = S = I32Array.  A call is a frame [start, stop, step,             *)
(* stop_inclusive, pc, cur, builder, result] that advances by one round of *)
(* the while loop at a time.  The arguments are i32 at full width; a       *)
(* behaviour draws them near zero and near both ends of the type.          *)
(***************************************************************************)
I32_MAX == 2147483647

I32_MIN == (-2147483647) - 1

\* how far from zero and from the ends of i32 the arguments are drawn
MaxSpan == 3

SeriesLow == {I32_MIN + k : k \in 0..MaxSpan}

SeriesMid == {k - MaxSpan : k \in 0..(2 * MaxSpan)}

SeriesHigh == {I32_MAX - k : k \in 0..MaxSpan}

SeriesValues == SeriesLow \cup SeriesMid \cup SeriesHigh

SeriesSteps == SeriesMid \cup {I32_MIN, I32_MAX}

Cluster(v) == IF v \in SeriesLow THEN 1 ELSE IF v \in SeriesMid THEN 2 ELSE 3

\* the step leads from start to stop
Pointing(start, stop, step) == (step > 0 /\ start < stop) \/ (step < 0 /\ start > stop)

\* the calls a behaviour draws: those that end within a few rounds, and whose
\* stop - start is an i32
SeriesArgs ==
    {a \in SeriesValues \X SeriesValues \X SeriesSteps :
        \/ Cluster(a[1]) = Cluster(a[2])
        \/ ~Pointing(a[1], a[2], a[3])
        \/ /\ a[3] \in {I32_MIN, I32_MAX}
           /\ (a[1] >= 0) = (a[2] >= 0)}

\* i32::checked_add: None when the sum is not an i32
checked_add(cur, step) ==
    IF step > 0 /\ cur > I32_MAX - step THEN [some |-> FALSE, v |-> 0]
    ELSE IF step < 0 /\ cur < I32_MIN - step THEN [some |-> FALSE, v |-> 0]
    ELSE [some |-> TRUE, v |-> cur + step]

\* the condition of the while loop
loop_condition(cur, stop, step, stop_inclusive) ==
    IF step < 0
    THEN IF stop_inclusive THEN cur >= stop ELSE cur > stop
    ELSE IF stop_inclusive THEN cur <= stop ELSE cur < stop

NoSeriesResult == [tag |-> "", array |-> <<>>]

\* the frame of a call that has not run yet
SeriesCall(start, stop, step, stop_inclusive) ==
    [start |-> start, stop |-> stop, step |-> step, stop_inclusive |-> stop_inclusive,
     pc |-> "call", cur |-> 0, builder |-> <<>>, rounds |-> 0, result |-> NoSeriesResult]

SeriesReturned(f, tag, array) ==
    [f EXCEPT !.pc = "returned", !.result = [tag |-> tag, array |-> array]]

\* the function up to its loop: the zero test, the builder, cur
eval_row_enter(f) ==
    IF f.step = 0
    THEN SeriesReturned(f, "InvalidParam", <<>>)
    ELSE [f EXCEPT !.pc = "loop", !.cur = f.start]

\* a round that appends nothing and leaves cur where it is
eval_row_round_idle(f) == f

\* one round of the loop body
eval_row_round(f) ==
    LET appended == [f EXCEPT !.builder = Append(@, f.cur), !.rounds = @ + 1]
        next == checked_add(f.cur, f.step)
    IN  IF next.some
        THEN [appended EXCEPT !.cur = next.v]
        ELSE SeriesReturned(appended, "NumericOutOfRange", <<>>)

\* Ok(Arc::new(builder.finish().into()))
eval_row_finish(f) == SeriesReturned(f, "Ok", f.builder)

(***************************************************************************)
(* cache_may_stale (stream/src/cache/mod.rs).  A Bitmap is a sequence of   *)
(* bits, one per vnode.                                                    *)
(***************************************************************************)
MaxVnodes == 4

Bitmaps(n) == [1..n -> BOOLEAN]

\* a comparison the other way round
BoolLe(p, c) == c \/ ~p

\* bool as PartialOrd orders false before true
BoolGe(p, c) == p \/ ~c

\* .zip_eq_debug(..).all(|(p, c)| p >= c), front to back
RECURSIVE AllGeFrom(_, _, _)
AllGeFrom(previous, current, k) ==
    IF k > Len(previous) THEN TRUE
    ELSE IF ~BoolGe(previous[k], current[k]) THEN FALSE
    ELSE AllGeFrom(previous, current, k + 1)

cache_may_stale(previous_vnode_bitmap, current_vnode_bitmap) ==
    LET current_is_subset == AllGeFrom(previous_vnode_bitmap, current_vnode_bitmap, 1)
    IN  ~current_is_subset

\* an executor before its first scaling
VnodesNew(bitmap) ==
    [previous |-> bitmap, current |-> bitmap, scalings |-> 0, may_stale |-> FALSE]

(***************************************************************************)
(* The objects outside the compaction selector, as constructed.            *)
(***************************************************************************)
ComponentsNew ==
    /\ sink = KafkaSink_new(KafkaConfig(MaxRetryNum, TRUE))
    /\ schema_catalog = SchemaCatalog_new
    /\ series = SeriesCall(0, 0, 0, TRUE)
    /\ vnodes = VnodesNew([k \in 1..MaxVnodes |-> TRUE])

InFlight(hs) == UNION {{t.task_id : t \in hs[i]} : i \in DOMAIN hs}

Init ==
    /\ config \in SelectorConfigs
    /\ levels \in SelectorSnapshots(config)
    /\ handlers = EmptyHandlers(config)
    /\ ctx = SelectContextDefault
    /\ next_task_id = 1
    /\ selector = DynamicLevelSelector_new(config, "RangeOverlapStrategy")
    /\ last = LastOp("new", 0, NoResult(handlers, ctx))
    /\ ComponentsNew

\* task ids are handed out in increasing order, one to each tick
FreshTaskId(hs, task_id) ==
    /\ task_id = next_task_id
    /\ task_id \notin InFlight(hs)

\* the caller takes what a tick of a selector returned
Ticked(name, task_id, r) ==
    /\ handlers' = r.handlers
    /\ ctx' = r.ctx
    /\ last' = LastTick(name, task_id, r)
    /\ next_task_id' = task_id + 1
    /\ UNCHANGED components
    /\ UNCHANGED <<config, levels, selector>>

\* the builds to tell apart on these inputs: with and without overflow checks
\* when a subtraction goes below zero, one build otherwise (both compute the
\* same)
BuildProfiles(lv, hs, cfg) ==
    IF SubtractWithOverflow(lv, hs, cfg) THEN BOOLEAN ELSE {FALSE}

Tick(task_id) ==
    /\ FreshTaskId(handlers, task_id)
    /\ \E overflow_checks \in BuildProfiles(levels, handlers, config) :
          Ticked("DynamicLevelSelector", task_id,
                 DynamicLevelSelector_pick_compaction(task_id, levels, handlers, config,
                                                      overflow_checks))

\* a tick of a selector that was built with an option; last keeps the option
TickedWith(name, task_id, r, option) ==
    /\ handlers' = r.handlers
    /\ ctx' = r.ctx
    /\ last' = [LastTick(name, task_id, r) EXCEPT !.option = option]
    /\ next_task_id' = task_id + 1
    /\ UNCHANGED components
    /\ UNCHANGED <<config, levels, selector>>

\* a tick of the manual selector; last keeps the manual option of the
\* selector and the picker it built
ManualTick(task_id, option) ==
    /\ FreshTaskId(handlers, task_id)
    /\ TickedWith("ManualCompactionSelector", task_id,
                  ManualCompactionSelector_pick_compaction(task_id, levels, handlers,
                                                           config, option),
                  [variant |-> "Manual", option |-> option,
                   picker |-> ManualSelectorPicker(levels, config, option)])

SpaceReclaimTick(task_id, all_table_ids) ==
    /\ FreshTaskId(handlers, task_id)
    /\ TickedWith("SpaceReclaimCompaction", task_id,
                  SpaceReclaimCompactionSelector_pick_compaction(task_id, levels, handlers,
                                                                 config, all_table_ids),
                  [variant |-> "SpaceReclaim", all_table_ids |-> all_table_ids])

TtlTick(task_id, expired_table_ids) ==
    /\ FreshTaskId(handlers, task_id)
    /\ TickedWith("TtlCompaction", task_id,
                  TtlCompactionSelector_pick_compaction(task_id, levels, handlers, config,
                                                        expired_table_ids),
                  [variant |-> "Ttl", expired_table_ids |-> expired_table_ids])

RemoveTask(task_id) ==
    /\ task_id \in InFlight(handlers)
    /\ handlers' = RemoveTaskEveryLevel(handlers, task_id)
    /\ ctx' = SelectContextDefault
    /\ last' = [LastOp("remove_task", task_id, NoResult(handlers, ctx))
                    EXCEPT !.before = BeforeTask(task_id)]
    /\ UNCHANGED components
    /\ UNCHANGED <<config, levels, next_task_id, selector>>

Flush(range) ==
    /\ Len(levels.l0.sub_levels) < MaxSubLevels
    /\ levels' = push_table_level0(levels, FlushFile(levels, handlers, range))
    /\ ctx' = SelectContextDefault
    /\ last' = LastOp("flush", 0, NoResult(handlers, ctx))
    /\ UNCHANGED components
    /\ UNCHANGED <<config, handlers, next_task_id, selector>>

\* the snapshot of a later version: the L0 files are gone, whatever the
\* handlers still hold
ClearL0 ==
    /\ levels.l0.sub_levels # <<>>
    /\ levels' = [levels EXCEPT !.l0 = EmptyL0]
    /\ ctx' = SelectContextDefault
    /\ last' = LastOp("clear_l0", 0, NoResult(handlers, ctx))
    /\ UNCHANGED components
    /\ UNCHANGED <<config, handlers, next_task_id, selector>>

Next ==
    \/ \E task_id \in TaskIds : Tick(task_id)
    \/ \E task_id \in TaskIds : \E option \in ManualOptions(config) :
          ManualTick(task_id, option)
    \/ \E task_id \in TaskIds : \E ids \in LiveTableIdSets : SpaceReclaimTick(task_id, ids)
    \/ \E task_id \in TaskIds : \E ids \in ExpiredTableIdSets : TtlTick(task_id, ids)
    \/ \E task_id \in TaskIds : RemoveTask(task_id)
    \/ \E range \in FlushRanges : Flush(range)

Spec == Init /\ [][Next]_vars

(***************************************************************************)
(* The dynamic selector over snapshots of successive versions: between two *)
(* ticks the L0 files may be gone while the handlers still hold them.      *)
(***************************************************************************)
NextVersions ==
    \/ \E task_id \in TaskIds : Tick(task_id)
    \/ \E task_id \in TaskIds : RemoveTask(task_id)
    \/ \E range \in FlushRanges : Flush(range)
    \/ ClearL0

SpecVersions == Init /\ [][NextVersions]_vars

(***************************************************************************)
(* try_update: a selector of any kind, built with any configuration, is    *)
(* handed selector options of any variant.  A panic ends the process.      *)
(***************************************************************************)
UpdateConfigs ==
    {CompactionConfig(3, 100, 5, 2), CompactionConfig(4, 100, 5, 2),
     [CompactionConfig(3, 100, 5, 2) EXCEPT !.compaction_mode = "ConsistentHash"]}

OverlapStrategies == {"RangeOverlapStrategy", "HashStrategy"}

Selectors ==
    {DynamicLevelSelector_new(cfg, os) : cfg \in UpdateConfigs, os \in OverlapStrategies}
      \cup {ManualCompactionSelector_new(cfg, "RangeOverlapStrategy", option) :
                cfg \in UpdateConfigs, option \in ManualOptions(CompactionConfig(3, 100, 5, 2))}
      \cup {SpaceReclaimCompactionSelector_new(SelectorOption("SpaceReclaim", cfg, NoOption, ids)) :
                cfg \in UpdateConfigs, ids \in LiveTableIdSets}
      \cup {TtlCompactionSelector_new(cfg) : cfg \in UpdateConfigs}

SelectorOptions ==
    {SelectorOption("Dynamic", cfg, NoOption, {}) : cfg \in UpdateConfigs}
      \cup {SelectorOption("Manual", cfg, option, {}) :
                cfg \in UpdateConfigs, option \in ManualOptions(CompactionConfig(3, 100, 5, 2))}
      \cup {SelectorOption("SpaceReclaim", cfg, NoOption, ids) :
                cfg \in UpdateConfigs, ids \in LiveTableIdSets}
      \cup {SelectorOption("Ttl", cfg, NoOption, {}) : cfg \in UpdateConfigs}

InitUpdate ==
    /\ selector \in Selectors
    /\ config = selector.config
    /\ levels = SnapshotOf(config, [i \in 1..config.max_level |-> <<0, 0>>])
    /\ handlers = EmptyHandlers(config)
    /\ ctx = SelectContextDefault
    /\ next_task_id = 1
    /\ last = LastOp("new", 0, NoResult(handlers, ctx))
    /\ ComponentsNew

\* the call try_update(selector_option); last keeps the option and, in before,
\* the selector the call started from, the option of the call before it and
\* the selector that call started from
TryUpdate(selector_option) ==
    /\ ~last.panic
    /\ LET r == try_update(selector, selector_option)
       IN  /\ selector' = r.selector
           /\ config' = r.selector.config
           /\ last' = [LastOp("try_update", 0, NoResult(handlers, ctx))
                          EXCEPT !.panic = r.panic,
                                 !.option = selector_option,
                                 !.before = <<selector, last.option,
                                              IF last.op = "try_update"
                                              THEN last.before[1] ELSE selector>>]
    /\ UNCHANGED components
    /\ UNCHANGED <<levels, handlers, ctx, next_task_id>>

NextUpdate == \E selector_option \in SelectorOptions : TryUpdate(selector_option)

SpecUpdate == InitUpdate /\ [][NextUpdate]_vars

(***************************************************************************)
(* The sizing engine, the scorer and one tick as functions of their        *)
(* inputs: each behaviour draws a configuration and a snapshot and applies *)
(* one of them once, on fresh handlers.                                    *)
(***************************************************************************)
InitSizing ==
    /\ config \in SizingConfigs
    /\ levels \in SizingSnapshots(config)
    /\ handlers = EmptyHandlers(config)
    /\ ctx = SelectContextDefault
    /\ next_task_id = 1
    /\ selector = DynamicLevelSelector_new(config, "RangeOverlapStrategy")
    /\ last = LastOp("new", 0, NoResult(handlers, ctx))
    /\ ComponentsNew

CalculateLevelBaseSize ==
    /\ last.op = "new"
    /\ ctx' = calculate_level_base_size(levels, config)
    /\ last' = LastOp("calculate_level_base_size", 0, NoResult(handlers, ctx))
    /\ UNCHANGED components
    /\ UNCHANGED <<config, levels, handlers, next_task_id, selector>>

GetPriorityLevels ==
    /\ last.op = "new"
    /\ ctx' = get_priority_levels(levels, handlers, config)
    /\ last' = LastOp("get_priority_levels", 0, NoResult(handlers, ctx))
    /\ UNCHANGED components
    /\ UNCHANGED <<config, levels, handlers, next_task_id, selector>>

FirstTick ==
    /\ last.op = "new"
    /\ Tick(1)

NextSizing ==
    \/ CalculateLevelBaseSize
    \/ GetPriorityLevels
    \/ FirstTick

SpecSizing == InitSizing /\ [][NextSizing]_vars

(***************************************************************************)
(* The scorer on two snapshots that differ in one level: the second        *)
(* snapshot is the first with one more file in that level, and the         *)
(* handlers and the configuration are those of the first.                  *)
(***************************************************************************)
GrowBytes == {1, 250, 2000}

\* the snapshot with one more file of the given size in level i (L0: one more
\* sub-level)
AddBytes(lv, hs, i, bytes) ==
    IF i = 0
    THEN push_table_level0(lv, SstableInfo(NextSstId(lv, hs), 0, 9, bytes, {1, 2}))
    ELSE LET files == lv.levels[i].table_infos
         IN  [lv EXCEPT !.levels[i] =
                 generate_level(i, Append(files, SlotFile(i, Len(files) + 1, bytes)))]

InitScore ==
    /\ InitSizing
    /\ config.max_level = 3

ScoreGrown(i, bytes) ==
    /\ last.op \in {"new", "pick_compaction"}
    /\ ~last.panic
    /\ levels' = AddBytes(levels, handlers, i, bytes)
    /\ ctx' = get_priority_levels(levels', handlers, config)
    /\ last' = [LastOp("grow", 0, NoResult(handlers, ctx')) EXCEPT
                    !.before = <<i, get_priority_levels(levels, handlers, config)>>]
    /\ UNCHANGED components
    /\ UNCHANGED <<config, handlers, next_task_id, selector>>

NextScore ==
    \/ FirstTick
    \/ \E i \in 0..config.max_level, bytes \in GrowBytes : ScoreGrown(i, bytes)

SpecScore == InitScore /\ [][NextScore]_vars

(***************************************************************************)
(* The scorer on L0 trees of several shapes: sub-levels of one or more     *)
(* files, scored on fresh handlers and again after a tick has reserved     *)
(* files.                                                                  *)
(***************************************************************************)
\* the file counts of the sub-levels, oldest first
L0Shapes ==
    {<<>>, <<1>>, <<3>>, <<1, 1, 1>>, <<2, 3>>, <<3, 3>>, <<1, 1, 1, 1, 1>>,
     <<1, 1, 1, 1, 1, 1, 1>>}

\* sub-level j with its files in slots 1..count, 60 bytes each
L0SubLevel(j, count) ==
    generate_level(0, [k \in 1..count |->
                          SstableInfo(100 + 10 * j + k, Slot(k).left, Slot(k).right, 60, {k})])

generate_l0_overlapping_sublevels(counts) ==
    [sub_levels |-> [j \in 1..Len(counts) |-> L0SubLevel(j, counts[j])],
     total_file_size |-> SumSeq([j \in 1..Len(counts) |-> 60 * counts[j]])]

L0Configs ==
    {CompactionConfig(3, base, 5, tier_files) : base \in {100, 200}, tier_files \in {2, 3}}

InitL0 ==
    /\ config \in L0Configs
    /\ \E lv \in SelectorSnapshots(config), counts \in L0Shapes :
          levels = [lv EXCEPT !.l0 = generate_l0_overlapping_sublevels(counts)]
    /\ handlers = EmptyHandlers(config)
    /\ ctx = SelectContextDefault
    /\ next_task_id = 1
    /\ selector = DynamicLevelSelector_new(config, "RangeOverlapStrategy")
    /\ last = LastOp("new", 0, NoResult(handlers, ctx))
    /\ ComponentsNew

\* the scorer on the handlers a tick left behind, and on the flushes since
Rescore ==
    /\ last.op \in {"pick_compaction", "flush"}
    /\ ~SubtractWithOverflow(levels, handlers, config)
    /\ ctx' = get_priority_levels(levels, handlers, config)
    /\ last' = LastOp("get_priority_levels", 0, NoResult(handlers, ctx))
    /\ UNCHANGED components
    /\ UNCHANGED <<config, levels, handlers, next_task_id, selector>>

NextL0 ==
    \/ GetPriorityLevels
    \/ FirstTick
    \/ Rescore
    \/ \E range \in FlushRanges : Flush(range)

SpecL0 == InitL0 /\ [][NextL0]_vars

(***************************************************************************)
(* The objects outside the compaction selector are driven on their own:    *)
(* the selector stays as constructed.                                      *)
(***************************************************************************)
selector_vars == <<config, levels, handlers, ctx, next_task_id, selector, last>>

SelectorNew ==
    /\ config \in SelectorConfigs
    /\ levels = SnapshotOf(config, [i \in 1..config.max_level |-> <<0, 0>>])
    /\ handlers = EmptyHandlers(config)
    /\ ctx = SelectContextDefault
    /\ next_task_id = 1
    /\ selector = DynamicLevelSelector_new(config, "RangeOverlapStrategy")
    /\ last = LastOp("new", 0, NoResult(handlers, ctx))

(***************************************************************************)
(* The Kafka sink driven by its caller: begin_epoch, commit, abort and     *)
(* send in any order, one call at a time, against a producer that answers  *)
(* each call as it likes.                                                  *)
(***************************************************************************)
InitKafka ==
    /\ SelectorNew
    /\ sink \in {KafkaSink_new(cfg) : cfg \in KafkaConfigs}
    /\ schema_catalog = SchemaCatalog_new
    /\ series = SeriesCall(0, 0, 0, TRUE)
    /\ vnodes = VnodesNew([k \in 1..MaxVnodes |-> TRUE])

KafkaStep(s) ==
    /\ sink' = s
    /\ UNCHANGED <<schema_catalog, series, vnodes>>
    /\ UNCHANGED selector_vars

Idle == sink.frame.method = ""

BeginEpoch(epoch) == Idle /\ KafkaStep(begin_epoch(sink, epoch))

Commit == Idle /\ KafkaStep(commit(sink))

Abort == Idle /\ KafkaStep(abort(sink))

Send(record) == Idle /\ KafkaStep(send(sink, record))

\* the loop of the frame has a round left
RoundLeft == ~Idle /\ sink.frame.attempts < RetryBudget(sink.config)

DoWithRetryRound ==
    /\ RoundLeft
    /\ sink.frame.op # "send"
    /\ \E result \in ConductorResults(sink.config, sink.frame.op) :
          KafkaStep(do_with_retry_round(sink, result))

SendRound ==
    /\ RoundLeft
    /\ sink.frame.op = "send"
    /\ \E result \in ConductorResults(sink.config, "send") :
          KafkaStep(send_round(sink, result))

LoopExhausted ==
    /\ ~Idle
    /\ ~RoundLeft
    /\ KafkaStep(loop_exhausted(sink))

KafkaRounds == DoWithRetryRound \/ SendRound \/ LoopExhausted

NextKafka ==
    \/ \E epoch \in Epochs : BeginEpoch(epoch)
    \/ Commit
    \/ Abort
    \/ \E record \in Records : Send(record)
    \/ DoWithRetryRound
    \/ SendRound
    \/ LoopExhausted

SpecKafka == InitKafka /\ [][NextKafka]_vars

\* the producer answers every call and the sleep between two rounds ends
SpecKafkaFair == SpecKafka /\ WF_vars(KafkaRounds)

(***************************************************************************)
(* The schema catalog under any sequence of create_table, create_index,    *)
(* drop_table and drop_index.                                              *)
(***************************************************************************)
InitCatalog ==
    /\ SelectorNew
    /\ sink = KafkaSink_new(KafkaConfig(MaxRetryNum, TRUE))
    /\ schema_catalog = SchemaCatalog_new
    /\ series = SeriesCall(0, 0, 0, TRUE)
    /\ vnodes = VnodesNew([k \in 1..MaxVnodes |-> TRUE])

\* the catalog after a call; call keeps the call and the catalog it found
CatalogStep(op, id, c) ==
    /\ schema_catalog.panic = NoPanic
    /\ schema_catalog' = [c EXCEPT !.call = [op |-> op, id |-> id]]
    /\ UNCHANGED <<sink, series, vnodes>>
    /\ UNCHANGED selector_vars

CreateTable(id, name) == CatalogStep("create_table", id, create_table(schema_catalog, id, name))

DropTable(id) == CatalogStep("drop_table", id, drop_table(schema_catalog, id))

CreateIndex(id, name, index_table_id, primary_table_id) ==
    CatalogStep("create_index", id,
                create_index(schema_catalog, id, name, index_table_id, primary_table_id))

DropIndex(id) == CatalogStep("drop_index", id, drop_index(schema_catalog, id))

NextCatalog ==
    \/ \E id \in CatalogTableIds, name \in TableNames : CreateTable(id, name)
    \/ \E id \in CatalogTableIds : DropTable(id)
    \/ \E id \in IndexIds, name \in IndexNames :
          \E index_table_id \in CatalogTableIds, primary_table_id \in CatalogTableIds :
             CreateIndex(id, name, index_table_id, primary_table_id)
    \/ \E id \in IndexIds : DropIndex(id)

SpecCatalog == InitCatalog /\ [][NextCatalog]_vars

(***************************************************************************)
(* eval_row as a function of its arguments: each behaviour draws one call  *)
(* and runs it to its return.                                              *)
(***************************************************************************)
InitSeries ==
    /\ SelectorNew
    /\ sink = KafkaSink_new(KafkaConfig(MaxRetryNum, TRUE))
    /\ schema_catalog = SchemaCatalog_new
    /\ \E a \in SeriesArgs, stop_inclusive \in BOOLEAN :
          series = SeriesCall(a[1], a[2], a[3], stop_inclusive)
    /\ vnodes = VnodesNew([k \in 1..MaxVnodes |-> TRUE])

SeriesStep(f) ==
    /\ series' = f
    /\ UNCHANGED <<sink, schema_catalog, vnodes>>
    /\ UNCHANGED selector_vars

EvalRowEnter == series.pc = "call" /\ SeriesStep(eval_row_enter(series))

EvalRowRound ==
    /\ series.pc = "loop"
    /\ loop_condition(series.cur, series.stop, series.step, series.stop_inclusive)
    /\ SeriesStep(eval_row_round(series))

EvalRowFinish ==
    /\ series.pc = "loop"
    /\ ~loop_condition(series.cur, series.stop, series.step, series.stop_inclusive)
    /\ SeriesStep(eval_row_finish(series))

NextSeries ==
    \/ EvalRowEnter
    \/ EvalRowRound
    \/ EvalRowFinish

SpecSeries == InitSeries /\ [][NextSeries]_vars

\* the call is not suspended: it has no await
SpecSeriesFair == SpecSeries /\ WF_vars(NextSeries)

(***************************************************************************)
(* An executor across scalings: each scaling hands it a new vnode bitmap   *)
(* of the same length and asks cache_may_stale about the one it had.       *)
(***************************************************************************)
InitCache ==
    /\ SelectorNew
    /\ sink = KafkaSink_new(KafkaConfig(MaxRetryNum, TRUE))
    /\ schema_catalog = SchemaCatalog_new
    /\ series = SeriesCall(0, 0, 0, TRUE)
    /\ \E n \in 1..MaxVnodes : \E bitmap \in Bitmaps(n) : vnodes = VnodesNew(bitmap)

UpdateVnodeBitmap(bitmap) ==
    /\ vnodes' = [previous |-> vnodes.current,
                  current |-> bitmap,
                  scalings |-> 1,
                  may_stale |-> cache_may_stale(vnodes.current, bitmap)]
    /\ UNCHANGED <<sink, schema_catalog, series>>
    /\ UNCHANGED selector_vars

NextCache == \E bitmap \in Bitmaps(Len(vnodes.current)) : UpdateVnodeBitmap(bitmap)

SpecCache == InitCache /\ [][NextCache]_vars

(***************************************************************************)
(* Properties.                                                             *)
(***************************************************************************)
\* what the last operation was
Picked == last.op = "pick_compaction" /\ last.task.some

PickedNone == last.op = "pick_compaction" /\ ~last.task.some

DynamicTicked == last.op = "pick_compaction" /\ last.selector = "DynamicLevelSelector"

\* every reservation record of every handler
AllReservations == UNION {handlers[i] : i \in DOMAIN handlers}

\* the ids of the files a task lists, over all its input levels
TaskFileIds(task) ==
    UNION {FileIds(task.input.input_levels[k].table_infos) :
              k \in 1..Len(task.input.input_levels)}

\* C1: no file id is reserved by two distinct in-flight tasks, and the task a
\* tick returns while other tasks are reserved shares no file with any of them.
C1_NoFileReservedTwice ==
    /\ \A t \in AllReservations : \A u \in AllReservations :
          t.task_id # u.task_id => t.ssts \cap u.ssts = {}
    /\ Picked =>
          \A u \in AllReservations :
              u.task_id # last.task_id => TaskFileIds(last.task) \cap u.ssts = {}

\* C1 witness: a tick of a selector other than the dynamic one returned a task
\* with files of a level where another in-flight task holds files too.
C1_Witness ==
    /\ Picked
    /\ last.selector # "DynamicLevelSelector"
    /\ \E i \in DOMAIN handlers : \E t \in handlers[i] : \E u \in handlers[i] :
          /\ t.task_id = last.task_id
          /\ u.task_id # last.task_id
          /\ t.ssts # {}
          /\ u.ssts # {}

\* C2: when a tick returns a task, every file of every input level of the task
\* is pending-compact in the handler of that input level.
C2_ReturnedFilesArePending ==
    Picked =>
        \A k \in 1..Len(last.task.input.input_levels) :
            LET il == last.task.input.input_levels[k]
            IN  \A f \in 1..Len(il.table_infos) :
                    is_pending_compact(handlers[il.level_idx], il.table_infos[f].id)

\* C2 witness: a returned task with files in two different levels.
C2_Witness ==
    /\ Picked
    /\ \E k \in 1..Len(last.task.input.input_levels) :
         \E j \in 1..Len(last.task.input.input_levels) :
            /\ last.task.input.input_levels[k].level_idx
                  # last.task.input.input_levels[j].level_idx
            /\ last.task.input.input_levels[k].table_infos # <<>>
            /\ last.task.input.input_levels[j].table_infos # <<>>

\* the sizing engine has run on the current snapshot
Sized == last.op \in {"calculate_level_base_size", "get_priority_levels", "pick_compaction"}

\* every level 1..max_level of the snapshot has total size 0
LevelsEmpty == \A i \in 1..Len(levels.levels) : levels.levels[i].total_file_size = 0

\* C3: for every snapshot and valid configuration the base level lies in
\* 1..max_level, and it is max_level when levels 1..max_level are all empty.
C3_BaseLevelSanity ==
    Sized =>
        /\ 1 <= ctx.base_level
        /\ ctx.base_level <= config.max_level
        /\ LevelsEmpty => ctx.base_level = config.max_level

\* C3 witness: a non-empty tree whose base level was walked down to level 1
\* from a first non-empty level below it.
C3_Witness ==
    /\ last.op = "calculate_level_base_size"
    /\ ~LevelsEmpty
    /\ first_non_empty_level(levels) > 1
    /\ ctx.base_level = 1

\* C4: level_max_bytes is non-decreasing from base_level to max_level, and
\* every entry at an index >= base_level is at least max_bytes_for_level_base.
C4_CapacityShape ==
    Sized =>
        /\ \A i \in ctx.base_level..(config.max_level - 1) :
              ctx.level_max_bytes[i + 1] >= ctx.level_max_bytes[i]
        /\ \A i \in ctx.base_level..config.max_level :
              ctx.level_max_bytes[i] >= config.max_bytes_for_level_base

\* C4 witness: a tree where the floor decides the base level's capacity (the
\* next level's capacity is less than the multiplier times it) and the
\* capacities grow over at least three levels.
C4_Witness ==
    /\ last.op = "calculate_level_base_size"
    /\ ~LevelsEmpty
    /\ ctx.base_level + 1 < config.max_level
    /\ ctx.level_max_bytes[ctx.base_level] = config.max_bytes_for_level_base
    /\ ctx.level_max_bytes[ctx.base_level + 1]
          < config.max_bytes_for_level_base * config.max_bytes_for_level_multiplier
    /\ ctx.level_max_bytes[config.max_level] > ctx.level_max_bytes[ctx.base_level + 1]

\* the input the picker of candidate k of a SelectContext yields on a snapshot
\* and handlers
CandidateInput(c, k, lv, hs, cfg) ==
    picker_pick_compaction(
        create_compaction_picker(c.score_levels[k][2], c.score_levels[k][3]),
        lv, hs, cfg)

\* C5: a picker is invoked only for a candidate whose score is strictly
\* greater than SCORE_BASE, so every returned task comes from such a candidate
\* and a candidate scoring SCORE_BASE or less never produces one.
C5_OnlyAboveScoreBase ==
    DynamicTicked =>
        /\ \A k \in 1..Len(last.tried) :
              ctx.score_levels[last.tried[k]][1] > SCORE_BASE
        /\ last.task.some => last.tried # <<>>

\* C5 witness: a tick returned none at a candidate that scores exactly
\* SCORE_BASE although its picker yields an input.
C5_Witness ==
    /\ PickedNone
    /\ DynamicTicked
    /\ Len(last.tried) < Len(ctx.score_levels)
    /\ ctx.score_levels[Len(last.tried) + 1][1] = SCORE_BASE
    /\ CandidateInput(ctx, Len(last.tried) + 1, levels, handlers, config).some

\* C6: the candidates are tried in descending score order and the first one
\* whose picker yields an input wins: the pickers of all candidates before the
\* winner yield nothing, the task carries the winner's input, no picker is
\* invoked after the winner, and a tick returns none only when it ran out of
\* candidates above SCORE_BASE.
C6_TickStep ==
    LET c == ctx'.score_levels
        n == Len(last'.tried)
    IN  /\ \A k \in 1..(Len(c) - 1) : c[k][1] >= c[k + 1][1]
        /\ last'.tried = [k \in 1..n |-> k]
        /\ \A k \in 1..n :
              CandidateInput(ctx', k, levels, handlers, config).some
                  <=> (last'.task.some /\ k = n)
        /\ last'.task.some =>
              /\ n > 0
              /\ last'.task.input = CandidateInput(ctx', n, levels, handlers, config)
        /\ ~last'.task.some => (n = Len(c) \/ c[n + 1][1] <= SCORE_BASE)

C6_FirstYieldingCandidateWins ==
    [][(last'.op = "pick_compaction" /\ last'.selector = "DynamicLevelSelector")
          => C6_TickStep]_vars

\* C6 witness: a task won by the third candidate, after two pickers of
\* higher-scored candidates yielded nothing.
C6_Witness ==
    /\ Picked
    /\ Len(last.skip_picker) = 2
    /\ Len(last.tried) = 3

\* the position of a candidate in the order the scorer pushes them: the
\* intra-L0 candidate, the L0-to-base candidate, then the levels in ascending
\* order
PushedBefore(a, b) ==
    \/ a[2] < b[2]
    \/ a[2] = b[2] /\ a[3] < b[3]

\* C7: score_levels is sorted by score in non-increasing order and candidates
\* of equal score keep the order in which they were pushed.
C7_SortedStable ==
    Sized =>
        \A i \in 1..Len(ctx.score_levels) : \A j \in 1..Len(ctx.score_levels) :
            i < j =>
                /\ ctx.score_levels[i][1] >= ctx.score_levels[j][1]
                /\ ctx.score_levels[i][1] = ctx.score_levels[j][1]
                      => PushedBefore(ctx.score_levels[i], ctx.score_levels[j])

\* C7 witness: two candidates of equal score, and a candidate pushed later
\* that was sorted before an earlier one.
C7_Witness ==
    /\ Sized
    /\ \E i \in 1..Len(ctx.score_levels) : \E j \in 1..Len(ctx.score_levels) :
          i < j /\ ctx.score_levels[i][1] = ctx.score_levels[j][1]
    /\ \E i \in 1..Len(ctx.score_levels) : \E j \in 1..Len(ctx.score_levels) :
          i < j /\ PushedBefore(ctx.score_levels[j], ctx.score_levels[i])

\* C8: a tick that returns none, of any selector, leaves the handler array
\* exactly as it was.
C8_NoneLeavesHandlers ==
    [][(last'.op = "pick_compaction" /\ ~last'.task.some) => handlers' = handlers]_vars

\* C8 witness: a tick returned none after a picker was tried and yielded
\* nothing, while a task held reservations.
C8_Witness ==
    /\ PickedNone
    /\ last.skip_picker # <<>>
    /\ \E u \in AllReservations : u.ssts # {}

\* C9: on an empty tree (no L0 sub-level, every level of size 0, no pending
\* task) base_level is max_level, every level_max_bytes entry is u64::MAX, the
\* candidate list is empty and a tick returns none.
C9_EmptyTree ==
    (Sized /\ LevelsEmpty /\ levels.l0.sub_levels = <<>>) =>
        /\ ctx.base_level = config.max_level
        /\ DOMAIN ctx.level_max_bytes = 0..config.max_level
        /\ \A i \in 0..config.max_level : ctx.level_max_bytes[i] = U64_MAX
        /\ ctx.score_levels = <<>>
        /\ ~last.task.some
        /\ AllReservations = {}

\* C9 witness: a tick on the empty tree of four levels.
C9_Witness ==
    /\ last.op = "pick_compaction"
    /\ LevelsEmpty
    /\ levels.l0.sub_levels = <<>>
    /\ config.max_level = 4

\* the task a tick returned has just been removed from every handler
RemovedAfterTick == last.op = "remove_task" /\ last.before # <<>>

\* C11: when a tick with a fresh task id returned a task and remove_task of
\* that id is then called on every handler, every handler (its reserved files
\* and its pending-output sizes) is what it was before the tick.
C11_ReserveReleaseRoundTrip ==
    RemovedAfterTick =>
        /\ handlers = last.before
        /\ \A i \in DOMAIN handlers : \A target \in DOMAIN handlers :
              /\ compacting_files(handlers[i]) = compacting_files(last.before[i])
              /\ get_pending_output_file_size(handlers[i], target)
                    = get_pending_output_file_size(last.before[i], target)

\* C11 witness: a task was removed right after the tick that returned it while
\* another task holds files in L0 and in a level below it, which the removal
\* has to leave in place.
C11_Witness ==
    /\ RemovedAfterTick
    /\ \E u \in handlers[0] : u.ssts # {}
    /\ \E i \in DOMAIN handlers : i > 0 /\ \E u \in handlers[i] : u.ssts # {}

\* C12: pick_compaction never fails: whatever ticks, snapshot changes and
\* remove_task calls came before, handlers holding more than the snapshot
\* included, a tick returns a task or none; it does not panic, no subtraction
\* of the scorer goes below zero and no assertion trips.
C12_PickNeverFails ==
    last.op = "pick_compaction" =>
        /\ ~last.panic
        /\ ~SubtractWithOverflow(levels, last.before, config)

\* try_update returned: the selector it started from is last.before[1], the
\* option it was handed is last.option
Updated == last.op = "try_update" /\ ~last.panic

\* the incoming option carries the configuration the selector already has
SameConfig == last.option.compaction_config = last.before[1].config

\* the incoming option carries what the selector already has besides the
\* configuration: the manual option, the live table ids
SameRest ==
    /\ last.before[1].kind = "Manual" => last.option.option = last.before[1].option
    /\ last.before[1].kind = "SpaceReclaim"
          => last.option.all_table_ids = last.before[1].all_table_ids

\* C13 as stated: try_update replaces the stored configuration if and only if
\* the incoming configuration differs by value, and leaves the selector's
\* state unchanged when the configurations are equal.
C13_UpdateIffConfigDiffers ==
    Updated =>
        /\ ~SameConfig => selector.config = last.option.compaction_config
        /\ SameConfig => selector = last.before[1]

\* C13 amended: try_update installs the incoming option when the incoming
\* configuration differs by value or, with an equal configuration, when the
\* manual selector's option or the space-reclaim selector's live table ids
\* differ; the selector's state is left unchanged exactly when all of them are
\* equal.
C13_UpdateIffOptionDiffers ==
    Updated =>
        /\ selector.config = last.option.compaction_config
        /\ (SameConfig /\ SameRest) <=> selector = last.before[1]
        /\ last.before[1].kind = "Manual" => selector.option = last.option.option
        /\ last.before[1].kind = "SpaceReclaim"
              => selector.all_table_ids = last.option.all_table_ids

\* C13 witness: a manual selector handed its own configuration with another
\* manual option, which is installed.
C13_Witness ==
    /\ Updated
    /\ last.before[1].kind = "Manual"
    /\ SameConfig
    /\ last.option.option # last.before[1].option
    /\ selector.option = last.option.option

\* C14: try_update is idempotent: a second try_update with the option of the
\* call before it changes nothing, so two calls leave the selector as one does.
C14_TryUpdateIdempotent ==
    (Updated /\ last.before[2] = last.option) => selector = last.before[1]

\* C14 witness: the second of two calls with the same option, where the first
\* call changed the selector.
C14_Witness ==
    /\ Updated
    /\ last.before[2] = last.option
    /\ last.before[3] # last.before[1]

\* C15: try_update with a selector option of another variant than the
\* selector's kind panics and installs no part of the option.
C15_WrongVariantPanics ==
    (last.op = "try_update" /\ last.option.variant # last.before[1].kind) =>
        /\ last.panic
        /\ selector = last.before[1]

\* C15 witness: the dynamic selector handed a Manual option whose
\* configuration differs from its own.
C15_Witness ==
    /\ last.op = "try_update"
    /\ last.panic
    /\ last.before[1].kind = "Dynamic"
    /\ last.option.variant = "Manual"
    /\ last.option.compaction_config # last.before[1].config

\* C16: no candidate of the scorer selects the bottommost level or a level
\* below the base level: every select level is below max_level, and is L0 or
\* at least base_level.
C16_BottomNeverSelected ==
    Sized =>
        \A k \in 1..Len(ctx.score_levels) :
            /\ ctx.score_levels[k][2] < config.max_level
            /\ ctx.score_levels[k][2] \notin 1..(ctx.base_level - 1)

\* C16 witness: the scorer ran on a tree whose bottommost level holds data and
\* whose base level is above level 1, and it scored the level above the bottom.
C16_Witness ==
    /\ last.op = "get_priority_levels"
    /\ levels.levels[config.max_level].total_file_size > 0
    /\ ctx.base_level > 1
    /\ \E k \in 1..Len(ctx.score_levels) : ctx.score_levels[k][2] = config.max_level - 1

\* the scores the scorer gave the candidates of a select level
ScoresOf(c, select) ==
    {<<c.score_levels[k][3], c.score_levels[k][1]>> :
        k \in {j \in 1..Len(c.score_levels) : c.score_levels[j][2] = select}}

\* the grown level scores at least what it scored before, candidate by
\* candidate (L0 has two, told apart by their target level)
GrownScoreNotLower ==
    \A a \in ScoresOf(last.before[2], last.before[1]) :
        \A b \in ScoresOf(ctx, last.before[1]) :
            a[1] = b[1] => b[2] >= a[2]

\* C17 as stated: when one level of the snapshot gains bytes, with the same
\* handlers and configuration, the score of the candidate that selects that
\* level does not go down.
C17_ScoreMonotone ==
    last.op = "grow" => GrownScoreNotLower

\* the sizing engine gives the grown level the same base level and the same
\* capacity in both snapshots (L0 has no capacity and does not move the base
\* level)
SameSizing ==
    /\ ctx.base_level = last.before[2].base_level
    /\ ctx.level_max_bytes[last.before[1]]
          = last.before[2].level_max_bytes[last.before[1]]

\* C17: when one level of the snapshot gains bytes, with the same handlers
\* and configuration, and the sizing engine computes the same base level and
\* the same capacity of that level for both snapshots, the score of the
\* candidate that selects that level does not go down.
C17_ScoreMonotoneAtSameCapacity ==
    (last.op = "grow" /\ SameSizing) => GrownScoreNotLower

\* C17 witness: a level above L0 gained bytes after a tick reserved files, its
\* capacity and the base level stayed the same, and its candidate scores
\* strictly more than before.
C17_Witness ==
    /\ last.op = "grow"
    /\ last.before[1] >= 1
    /\ \E i \in 0..config.max_level : handlers[i] # LevelHandlerNew
    /\ SameSizing
    /\ \E a \in ScoresOf(last.before[2], last.before[1]) :
          \E b \in ScoresOf(ctx, last.before[1]) : a[1] = b[1] /\ b[2] > a[2]

\* a tick of the manual selector
ManualTicked == last.op = "pick_compaction" /\ last.selector = "ManualCompactionSelector"

\* C18: the picker the manual selector builds gets the target level base_level
\* when option.level is 0, option.level when option.level is max_level, and
\* option.level + 1 otherwise; a returned task compacts into that level.
C18_ManualTargetLevel ==
    (ManualTicked /\ last.option.picker.some) =>
        LET level == last.option.option.level
            target_level == last.option.picker.target_level
        IN  /\ level = 0 => target_level = ctx.base_level
            /\ level = config.max_level => target_level = level
            /\ level \notin {0, config.max_level} => target_level = level + 1
            /\ last.task.some => last.task.input.target_level = target_level

\* C18 witness: a manual compaction of the bottommost level returned a task
\* that rewrites that level in place.
C18_Witness ==
    /\ ManualTicked
    /\ last.option.option.level = config.max_level
    /\ last.task.some
    /\ last.task.input.target_level = config.max_level

\* C19: a manual compaction whose requested level lies in the dead zone
\* (0 < option.level < base_level) returns none, builds and invokes no picker
\* and leaves every handler as it was.
C19_DeadZoneReturnsNone ==
    (/\ ManualTicked
     /\ 0 < last.option.option.level
     /\ last.option.option.level < ctx.base_level) =>
        /\ ~last.task.some
        /\ ~last.option.picker.some
        /\ last.tried = <<>>
        /\ handlers = last.before

\* C19 witness: a manual compaction of level 1 while the base level is 3 and a
\* task holds reservations.
C19_Witness ==
    /\ ManualTicked
    /\ last.option.option.level = 1
    /\ ctx.base_level = 3
    /\ \E u \in AllReservations : u.ssts # {}

\* the input the picker of the selector that just ticked yields on the
\* snapshot and the handlers the tick started from
SelectorPickerInput ==
    IF last.selector = "ManualCompactionSelector"
    THEN ManualCompactionPicker_pick(levels, last.before, last.option.option,
                                     last.option.picker.target_level)
    ELSE IF last.selector = "SpaceReclaimCompaction"
    THEN SpaceReclaimCompactionPicker_pick(levels, last.before,
                                           config.max_space_reclaim_bytes,
                                           last.option.all_table_ids)
    ELSE TtlReclaimCompactionPicker_pick(levels, last.before,
                                         config.max_space_reclaim_bytes,
                                         last.option.expired_table_ids)

\* the task type of each selector
SelectorTaskType ==
    [DynamicLevelSelector |-> "Dynamic", ManualCompactionSelector |-> "Manual",
     SpaceReclaimCompaction |-> "SpaceReclaim", TtlCompaction |-> "Ttl"]

\* C20: a tick of the manual, space-reclaim or ttl selector invokes its picker
\* at most once; when the picker yields nothing the tick returns none and
\* leaves the handlers unchanged; when it yields an input the task carries
\* that input, the base level the sizing engine computes on the same
\* snapshot, and the task type of the selector (Dynamic for the dynamic
\* selector).
C20_SinglePickerSelectors ==
    /\ Picked => last.task.task_type = SelectorTaskType[last.selector]
    /\ (last.op = "pick_compaction" /\ last.selector # "DynamicLevelSelector") =>
          /\ Len(last.tried) <= 1
          /\ last.tried = <<1>> =>
                /\ last.task.some <=> SelectorPickerInput.some
                /\ last.task.some => last.task.input = SelectorPickerInput
          /\ last.task.some =>
                /\ last.tried = <<1>>
                /\ last.task.base_level
                      = calculate_level_base_size(levels, config).base_level
          /\ ~last.task.some => handlers = last.before

\* C20 witness: a ttl tick returned a task while another task holds
\* reservations, on a tree whose base level is above level 1.
C20_Witness ==
    /\ Picked
    /\ last.selector = "TtlCompaction"
    /\ last.task.task_type = "Ttl"
    /\ last.task.base_level > 1
    /\ \E u \in AllReservations : u.task_id # last.task_id /\ u.ssts # {}

\* the scenario of a configuration (tier file number 2) and a tree given by
\* the sizes of levels 1..max_level, with an empty L0 and no task in flight
\* when the operation started
Scenario(max_level, base, multiplier, sizes) ==
    /\ config = CompactionConfig(max_level, base, multiplier, 2)
    /\ levels.l0.sub_levels = <<>>
    /\ \A i \in 1..max_level : levels.levels[i].total_file_size = sizes[i]
    /\ last.op = "pick_compaction" => last.before = EmptyHandlers(config)
    /\ last.op # "pick_compaction" => handlers = EmptyHandlers(config)

\* the scorer has run on the current snapshot
Scored == last.op = "get_priority_levels" \/ DynamicTicked

StablePyramid == Scenario(4, 100, 5, <<0, 50, 250, 1200>>)

\* C21 as stated: on the stable pyramid (sizes 0, 50, 250, 1200; base 100,
\* multiplier 5) the base level is 2, the capacities of levels 2..4 are 100,
\* 500 and 2500, no candidate scores above SCORE_BASE and the dynamic selector
\* returns no task.
C21_StablePyramid ==
    (Sized /\ StablePyramid) =>
        /\ ctx.base_level = 2
        /\ ctx.level_max_bytes[2] = 100
        /\ ctx.level_max_bytes[3] = 500
        /\ ctx.level_max_bytes[4] = 2500
        /\ \A k \in 1..Len(ctx.score_levels) : ctx.score_levels[k][1] <= SCORE_BASE
        /\ ~last.task.some

\* C21: on the same tree the base level is 2 and the capacities of levels
\* 2..4 are 100, 240 and 1200 (the bottommost capacity is the largest level
\* size); the scorer gives level 3 the score 104 and level 2 the score 50, so
\* the dynamic selector invokes the picker of (3, 4) first, and the task it
\* returns compacts level 3 into level 4.
C21_StablePyramidCapacities ==
    (Sized /\ StablePyramid) =>
        /\ ctx.base_level = 2
        /\ ctx.level_max_bytes[2] = 100
        /\ ctx.level_max_bytes[3] = 240
        /\ ctx.level_max_bytes[4] = 1200
        /\ Scored => ctx.score_levels = << <<104, 3, 4>>, <<50, 2, 3>> >>
        /\ last.op = "pick_compaction" =>
              /\ last.tried = <<1>>
              /\ last.task.some
              /\ last.task.input.target_level = 4
              /\ last.task.base_level = 2

\* C21 witness: the dynamic selector ticked on the stable pyramid and returned
\* a task.
C21_Witness ==
    /\ StablePyramid
    /\ last.op = "pick_compaction"
    /\ last.task.some

LevelOverflow == Scenario(4, 100, 5, <<0, 300, 250, 1000>>)

\* C22: on the level-N overflow tree (sizes 0, 300, 250, 1000; base 100,
\* multiplier 5; empty L0, no pending task) the highest-scored candidate is
\* (select 2, target 3), a MinOverlappingPicker serves it, and when that
\* picker yields an input the returned task selects level 2 and targets
\* level 3.
C22_LevelOverflow ==
    (Scored /\ LevelOverflow) =>
        /\ ctx.score_levels # <<>>
        /\ ctx.score_levels[1] = <<300, 2, 3>>
        /\ \A k \in 2..Len(ctx.score_levels) : ctx.score_levels[k][1] < 300
        /\ create_compaction_picker(2, 3).kind = "MinOverlappingPicker"
        /\ last.op = "pick_compaction" =>
              /\ last.tried = <<1>>
              /\ CandidateInput(ctx, 1, levels, last.before, config).some =>
                    /\ last.task.some
                    /\ last.task.input.input_levels[1].level_idx = 2
                    /\ last.task.input.target_level = 3
                    /\ last.task.input
                          = MinOverlappingPicker_pick(levels, last.before, 2, 3)

\* C22 witness: the dynamic selector ticked on the level-N overflow tree and
\* returned a task holding a file of level 2.
C22_Witness ==
    /\ LevelOverflow
    /\ last.op = "pick_compaction"
    /\ last.task.some
    /\ last.task.input.input_levels[1].table_infos # <<>>

\* the handlers the scorer last ran on
ScoredHandlers == IF last.op = "pick_compaction" THEN last.before ELSE handlers

\* the number of idle L0 files the scorer saw: all L0 files minus those pending
IdleL0Files == Len(L0Files(levels)) - get_pending_file_count(ScoredHandlers[0])

\* the candidates of score_levels with the given select and target level
CandidatesOf(select, target) ==
    {k \in 1..Len(ctx.score_levels) :
        ctx.score_levels[k][2] = select /\ ctx.score_levels[k][3] = target}

\* C23: when the number of idle L0 files is positive the scorer emits one
\* intra-L0 candidate (s, 0, 0) with s = min(idle * 100 / tier, cap) and
\* cap = max(200, sub_level_count * 100 / tier), in integer division, so s
\* never exceeds cap.
C23_IntraL0Score ==
    (Scored /\ ~last.panic /\ IdleL0Files > 0) =>
        LET tier == config.level0_tier_compact_file_number
            cap == Max(200, (Len(levels.l0.sub_levels) * 100) \div tier)
            s == Min((IdleL0Files * 100) \div tier, cap)
        IN  /\ Cardinality(CandidatesOf(0, 0)) = 1
            /\ \A k \in CandidatesOf(0, 0) :
                  /\ ctx.score_levels[k][1] = s
                  /\ ctx.score_levels[k][1] <= cap

\* C23 witness: the cap binds: six idle files in two sub-levels score 200, not
\* 300.
C23_Witness ==
    /\ Scored
    /\ IdleL0Files = 6
    /\ Len(levels.l0.sub_levels) = 2
    /\ config.level0_tier_compact_file_number = 2
    /\ \E k \in CandidatesOf(0, 0) : ctx.score_levels[k][1] = 200

\* the L0 size the scorer saw, minus the L0 handler's pending output directed
\* to the base level
EffectiveL0Size ==
    levels.l0.total_file_size
        - get_pending_output_file_size(ScoredHandlers[0], ctx.base_level)

\* candidate k is the L0-to-base candidate with the score of the effective L0
\* size
IsL0ToBase(k) ==
    ctx.score_levels[k]
        = <<(EffectiveL0Size * 100) \div config.max_bytes_for_level_base, 0, ctx.base_level>>

EffectiveLevelSize(i) ==
    LET upper == IF i = ctx.base_level THEN 0 ELSE i - 1
    IN  levels.levels[i].total_file_size
          + get_pending_output_file_size(ScoredHandlers[upper], i)
          - get_pending_output_file_size(ScoredHandlers[i], i + 1)

\* C25: for each level i with base_level <= i < max_level the scorer emits
\* (effective * 100 / level_max_bytes[i], i, i + 1) exactly when the effective
\* size of the level is non-zero; so a level whose effective size is within
\* its capacity, its overflow being covered by pending bytes, is not picked
\* from by the tick.
C25_PerLevelScore ==
    (Scored /\ ~last.panic) =>
        \A i \in ctx.base_level..(config.max_level - 1) :
            /\ EffectiveLevelSize(i) = 0 => CandidatesOf(i, i + 1) = {}
            /\ EffectiveLevelSize(i) # 0 =>
                  /\ Cardinality(CandidatesOf(i, i + 1)) = 1
                  /\ \A k \in CandidatesOf(i, i + 1) :
                        ctx.score_levels[k][1]
                            = (EffectiveLevelSize(i) * 100) \div ctx.level_max_bytes[i]
            /\ (EffectiveLevelSize(i) <= ctx.level_max_bytes[i] /\ Picked) =>
                  last.task.input.input_levels[1].level_idx # i

\* C25 witness: a level holds more than its capacity, a task in flight is
\* compacting part of it into the next level, what is left is within the
\* capacity, and the tick returned none.
C25_Witness ==
    /\ DynamicTicked
    /\ PickedNone
    /\ \E i \in ctx.base_level..(config.max_level - 1) :
          /\ levels.levels[i].total_file_size > ctx.level_max_bytes[i]
          /\ get_pending_output_file_size(last.before[i], i + 1) > 0
          /\ EffectiveLevelSize(i) <= ctx.level_max_bytes[i]

\* C26: when the L0 handler holds more than the snapshot (more pending L0
\* files than L0 files, or more pending output to the base level than the L0
\* size) the scorer saturates at zero: the tick does not panic, an idle count
\* of zero emits no L0 candidate, and an effective L0 size of zero scores 0.
C26_SaturatesAtZero ==
    (DynamicTicked /\ (IdleL0Files < 0 \/ EffectiveL0Size < 0)) =>
        /\ ~last.panic
        /\ IdleL0Files < 0 =>
              CandidatesOf(0, 0) = {} /\ CandidatesOf(0, ctx.base_level) = {}
        /\ (IdleL0Files > 0 /\ EffectiveL0Size < 0) =>
              \A k \in CandidatesOf(0, ctx.base_level) : ctx.score_levels[k][1] = 0

\* candidate k has one of the three shapes and gets the picker of its shape
ShapedCandidate(k) ==
    LET select == ctx.score_levels[k][2]
        target == ctx.score_levels[k][3]
        picker == create_compaction_picker(select, target)
    IN  \/ /\ select = 0
           /\ target = 0
           /\ picker.kind = "TierCompactionPicker"
        \/ /\ select = 0
           /\ target > 0
           /\ picker.kind = "LevelCompactionPicker"
           /\ picker.target_level = target
        \/ /\ select >= 1
           /\ target = select + 1
           /\ picker.kind = "MinOverlappingPicker"
           /\ picker.select_level = select
           /\ picker.target_level = target

\* C27: every candidate of the scorer is (0, 0), served by a
\* TierCompactionPicker, or (0, t) with t > 0, served by a
\* LevelCompactionPicker targeting t, or (s, s + 1) with s >= 1, served by a
\* MinOverlappingPicker; so the assertion select_level + 1 = target_level of
\* create_compaction_picker never fails in a tick.
C27_CandidateShapes ==
    Scored =>
        /\ \A k \in 1..Len(ctx.score_levels) : ShapedCandidate(k)
        /\ ~last.panic

\* C27 witness: a candidate list that holds all three shapes.
C27_Witness ==
    /\ Scored
    /\ CandidatesOf(0, 0) # {}
    /\ CandidatesOf(0, ctx.base_level) # {}
    /\ \E i \in 1..(config.max_level - 1) : CandidatesOf(i, i + 1) # {}

RECURSIVE Pow(_, _)
Pow(m, n) == IF n <= 0 THEN 1 ELSE m * Pow(m, n - 1)

\* cur_level_size once the walk has reached level b: the largest level size
\* divided by the multiplier once per level from b to max_level
CurLevelSizeAt(b) ==
    max_level_size(levels)
        \div Pow(config.max_bytes_for_level_multiplier, config.max_level - b)

\* C28: on a non-empty tree the base level is first_non_empty_level when
\* cur_level_size there is at most base_bytes_min; otherwise it is the first
\* level, walking down from first_non_empty_level, that is level 1 or where
\* cur_level_size is at most base_bytes_max.  With base 100, multiplier 5 and
\* max_level 4, sizes 0/50/250/1000 give base level 2 and capacities
\* 100/200/1000, and sizes 0/50/250/3000 give base level 1 and capacities
\* 100/120/600/3000.
C28_BaseLevelWalk ==
    (Sized /\ ~LevelsEmpty) =>
        LET first == first_non_empty_level(levels)
            base_bytes_max == config.max_bytes_for_level_base
            base_bytes_min == base_bytes_max \div config.max_bytes_for_level_multiplier
            Stops(b) == b = 1 \/ CurLevelSizeAt(b) <= base_bytes_max
        IN  /\ CurLevelSizeAt(first) <= base_bytes_min => ctx.base_level = first
            /\ CurLevelSizeAt(first) > base_bytes_min =>
                  /\ ctx.base_level \in 1..first
                  /\ Stops(ctx.base_level)
                  /\ \A b \in (ctx.base_level + 1)..first : ~Stops(b)
            /\ Scenario(4, 100, 5, <<0, 50, 250, 1000>>) =>
                  /\ ctx.base_level = 2
                  /\ ctx.level_max_bytes[2] = 100
                  /\ ctx.level_max_bytes[3] = 200
                  /\ ctx.level_max_bytes[4] = 1000
            /\ Scenario(4, 100, 5, <<0, 50, 250, 3000>>) =>
                  /\ ctx.base_level = 1
                  /\ ctx.level_max_bytes[1] = 100
                  /\ ctx.level_max_bytes[2] = 120
                  /\ ctx.level_max_bytes[3] = 600
                  /\ ctx.level_max_bytes[4] = 3000

\* C28 witness: the sizing engine ran on the tree of sizes 0/50/250/3000 and
\* lowered the base level from the first non-empty level 2 to level 1.
C28_Witness ==
    /\ last.op = "calculate_level_base_size"
    /\ Scenario(4, 100, 5, <<0, 50, 250, 3000>>)
    /\ first_non_empty_level(levels) = 2
    /\ ctx.base_level = 1

\* C30: the two L0 candidates come as a pair: when at least one L0 file is
\* idle the scorer emits both the intra-L0 candidate (., 0, 0) and the
\* L0-to-base candidate (., 0, base_level), whichever scores higher, ordered by
\* the sort; when no L0 file is idle it emits neither, whatever the L0 size.
C30_L0CandidatesPaired ==
    (Scored /\ ~last.panic) =>
        /\ IdleL0Files > 0 =>
              /\ Cardinality(CandidatesOf(0, 0)) = 1
              /\ Cardinality(CandidatesOf(0, ctx.base_level)) = 1
              /\ \A i \in CandidatesOf(0, 0) : \A b \in CandidatesOf(0, ctx.base_level) :
                    /\ i < b => ctx.score_levels[i][1] >= ctx.score_levels[b][1]
                    /\ b < i => ctx.score_levels[b][1] > ctx.score_levels[i][1]
        /\ IdleL0Files = 0 =>
              /\ CandidatesOf(0, 0) = {}
              /\ CandidatesOf(0, ctx.base_level) = {}

\* C30 witness: every L0 file is reserved by an intra-L0 task, the L0 size
\* exceeds max_bytes_for_level_base with no pending output to the base level,
\* and the scorer emitted no L0 candidate.
C30_Witness ==
    /\ Scored
    /\ ~last.panic
    /\ IdleL0Files = 0
    /\ EffectiveL0Size = levels.l0.total_file_size
    /\ levels.l0.total_file_size > config.max_bytes_for_level_base
    /\ CandidatesOf(0, ctx.base_level) = {}

\* C31: a reservation leaves its handler only in remove_task of its own task
\* id: every step that drops a reservation record from a handler is a
\* remove_task of the task the record belongs to, so no tick, whether it
\* returns a task or none, and no flush releases a reserved file.
C31_ReleasedOnlyByRemoveTask ==
    [][\A i \in DOMAIN handlers : \A t \in handlers[i] :
          t \notin handlers'[i] =>
              (last'.op = "remove_task" /\ last'.task_id = t.task_id)]_vars

\* a later tick has returned none while the files of task 1 are still reserved
C31_Witness ==
    /\ PickedNone
    /\ last.task_id > 1
    /\ \E i \in DOMAIN handlers : \E t \in handlers[i] : t.task_id = 1 /\ t.ssts # {}

\* C32: for every tree with data in some level 1..max_level and every valid
\* configuration, level_max_bytes[base_level] is exactly
\* max_bytes_for_level_base and every entry below base_level is still u64::MAX.
C32_BaseLevelCapacity ==
    (Sized /\ ~LevelsEmpty) =>
        /\ ctx.level_max_bytes[ctx.base_level] = config.max_bytes_for_level_base
        /\ \A i \in 0..(ctx.base_level - 1) : ctx.level_max_bytes[i] = U64_MAX

\* the sizing engine ran on a tree whose first sized level would get
\* base_bytes_min + 1 without the floor, with unsized levels above it
C32_Witness ==
    /\ last.op = "calculate_level_base_size"
    /\ ~LevelsEmpty
    /\ ctx.base_level > 1
    /\ DivTimes(max_level_size(levels), config.max_bytes_for_level_multiplier,
                config.max_level - first_non_empty_level(levels))
          <= config.max_bytes_for_level_base \div config.max_bytes_for_level_multiplier
    /\ config.max_bytes_for_level_base \div config.max_bytes_for_level_multiplier + 1
          < config.max_bytes_for_level_base
    /\ ctx.level_max_bytes[ctx.base_level] = config.max_bytes_for_level_base
    /\ ctx.level_max_bytes[ctx.base_level - 1] = U64_MAX

\* the step in which the call of a method returns
Returns(method) == sink.frame.method = method /\ sink'.frame.method = ""

ReturnsOk(method) == Returns(method) /\ sink'.returned.result = "Ok"

\* the step in which the caller calls begin_epoch(epoch)
Begins(epoch) == Idle /\ sink'.frame.method = "begin_epoch" /\ sink'.frame.calls = <<>>
                      /\ sink'.in_transaction_epoch = SomeEpoch(epoch)

\* what C33 says of begin_epoch and commit: begin_epoch(e) puts e in progress,
\* nothing but begin_epoch, a successful commit and an abort that clears touches
\* the epoch in progress, a successful commit moves it to Running(e) and
\* leaves none in progress, and the state changes in no other step
EpochCommitted ==
    /\ (Idle /\ sink'.frame.method = "begin_epoch") => \E epoch \in Epochs : Begins(epoch)
    /\ sink'.in_transaction_epoch # sink.in_transaction_epoch =>
          \/ \E epoch \in Epochs : Begins(epoch)
          \/ ReturnsOk("commit")
          \/ Returns("abort")
    /\ ReturnsOk("commit") =>
          /\ sink.in_transaction_epoch.some
          /\ sink'.state = KafkaSinkState_Running(sink.in_transaction_epoch.epoch)
          /\ sink'.in_transaction_epoch = NoEpoch
    /\ sink'.state # sink.state => ReturnsOk("commit")

\* C33 as stated: after begin_epoch(e) and a successful commit the sink is
\* Running(e) with no epoch in progress, the state changes only in a
\* successful commit, and abort clears the epoch in progress and leaves the
\* state alone.
C33_EpochState ==
    [][/\ EpochCommitted
       /\ Returns("abort") =>
             /\ sink'.in_transaction_epoch = NoEpoch
             /\ sink'.state = sink.state]_vars

\* C33: after begin_epoch(e) and a successful commit the sink is Running(e)
\* with no epoch in progress, the state changes only in a successful commit,
\* and an abort that returns Ok clears the epoch in progress and leaves the
\* state alone, while an abort that returns an error leaves both as they were.
C33_EpochStateAbortOk ==
    [][/\ EpochCommitted
       /\ ReturnsOk("abort") =>
             /\ sink'.in_transaction_epoch = NoEpoch
             /\ sink'.state = sink.state
       /\ (Returns("abort") /\ ~ReturnsOk("abort")) =>
             /\ sink'.in_transaction_epoch = sink.in_transaction_epoch
             /\ sink'.state = sink.state]_vars

\* epoch 1 was committed and the abort called after it returned Ok
C33_Witness ==
    /\ Idle
    /\ sink.returned = [method |-> "abort", result |-> "Ok"]
    /\ sink.state = KafkaSinkState_Running(1)
    /\ sink.in_transaction_epoch = NoEpoch
    /\ sink.config.use_transaction

\* C34: a commit called while no epoch is in progress returns an error and
\* leaves the state, Init or Running(e), as it was, with still no epoch in
\* progress.
C34_CommitWithoutEpoch ==
    [][(Returns("commit") /\ ~sink.in_transaction_epoch.some) =>
          /\ sink'.returned.result # "Ok"
          /\ sink'.state = sink.state
          /\ sink'.in_transaction_epoch = NoEpoch]_vars

\* a commit without an epoch got through flush and commit_transaction and
\* returned Canceled, on a sink that had committed an epoch before
C34_Witness ==
    /\ sink.returned = [method |-> "commit", result |-> "Canceled"]
    /\ sink.finished_loop.op = "commit_transaction"
    /\ sink.finished_loop.result = "Ok"
    /\ sink.state.tag = "Running"
    /\ sink.in_transaction_epoch = NoEpoch

RetriedOps == TransactionOps \cup {"flush"}

InLoop(op) == ~Idle /\ sink.frame.op = op

\* the step in which a loop of do_with_retry returns
DoWithRetryReturns ==
    /\ ~Idle
    /\ sink.frame.op \in RetriedOps
    /\ sink'.frame.method = "" \/ sink'.frame.op # sink.frame.op

\* what a loop that returned made of the producer's answers: no more calls
\* than max_retry_num, no call after an Ok, Ok when the last call said Ok, and
\* otherwise max_retry_num failed calls and the error of the last of them, or
\* Canceled when there was none
RetriedWithin(loop, max_retry_num) ==
    LET n == Len(loop.calls)
    IN  /\ n <= max_retry_num
        /\ \A k \in 1..(n - 1) : loop.calls[k].result # "Ok"
        /\ loop.result = "Ok" <=> (n > 0 /\ loop.calls[n].result = "Ok")
        /\ loop.result # "Ok" =>
              /\ n = max_retry_num
              /\ loop.result = IF n = 0 THEN "Canceled" ELSE loop.calls[n].result
        /\ max_retry_num = 0 => (n = 0 /\ loop.result = "Canceled")

\* C35: do_with_retry calls the operation at most max_retry_num times, returns
\* at the first Ok without a further call, returns the error of the last call
\* when every call failed, returns Canceled without a call when max_retry_num
\* is 0, and every loop that was entered returns.
C35_DoWithRetry ==
    /\ [][DoWithRetryReturns =>
             /\ sink'.finished_loop.op = sink.frame.op
             /\ RetriedWithin(sink'.finished_loop, sink.config.max_retry_num)]_vars
    /\ \A op \in RetriedOps : InLoop(op) ~> ~InLoop(op)

\* a loop used up its rounds on two different errors and returned the second
C35_Witness ==
    /\ sink.finished_loop.op \in RetriedOps
    /\ sink.config.max_retry_num = MaxRetryNum
    /\ Len(sink.finished_loop.calls) = MaxRetryNum
    /\ sink.finished_loop.calls[1].result = "QueueFull"
    /\ sink.finished_loop.calls[MaxRetryNum].result = "Transaction"
    /\ sink.finished_loop.result = "Transaction"

\* C36: send submits the record again only after the producer said QueueFull:
\* every call but the last of a send was answered QueueFull, the answer of the
\* last call is what send returns, an answer of QueueFull is the last only
\* after max_retry_num calls, and every call submits the record send was
\* called with.
C36_SendRetriesQueueFull ==
    [][Returns("send") =>
          LET loop == sink'.finished_loop
              n == Len(loop.calls)
          IN  /\ loop.op = "send"
              /\ n <= sink.config.max_retry_num
              /\ \A k \in 1..(n - 1) : loop.calls[k].result = "QueueFull"
              /\ \A k \in 1..n : loop.calls[k].record = loop.calls[1].record
              /\ n > 0 =>
                    /\ sink'.returned.result = loop.calls[n].result
                    /\ loop.calls[n].result = "QueueFull" => n = sink.config.max_retry_num]_vars

\* a send found the queue full and got the same record through on its second
\* call
C36_Witness ==
    /\ sink.returned = [method |-> "send", result |-> "Ok"]
    /\ sink.finished_loop.op = "send"
    /\ sink.finished_loop.calls = <<[result |-> "QueueFull", record |-> "r2"],
                                    [result |-> "Ok", record |-> "r2"]>>

\* the index is listed under the primary table it was built on
ListedUnderPrimary(c, id) ==
    LET key == c.index_by_id[id].primary_table.id
    IN  /\ key \in DOMAIN c.indexes_by_table_id
        /\ Position(c.indexes_by_table_id[key], id) # 0

\* C37: under any sequence of create_table, create_index, drop_table and
\* drop_index every index in index_by_id is listed under its primary table in
\* indexes_by_table_id, and drop_index of an index that exists neither reaches
\* unreachable!() nor fails to find the index in its table's list.
C37_IndexBookkeeping ==
    /\ schema_catalog.panic = NoPanic =>
          \A id \in DOMAIN schema_catalog.index_by_id : ListedUnderPrimary(schema_catalog, id)
    /\ ~(/\ schema_catalog.panic.op = "drop_index"
         /\ schema_catalog.panic.at \in {"unreachable", "position.unwrap"})

\* cur is past stop in the direction of the step
PastStop(f) ==
    IF f.step > 0
    THEN IF f.stop_inclusive THEN f.cur > f.stop ELSE f.cur >= f.stop
    ELSE IF f.stop_inclusive THEN f.cur < f.stop ELSE f.cur <= f.stop

\* cur + step is not an i32
SumOutOfRange(f) ==
    \/ f.step > 0 /\ f.cur > I32_MAX - f.step
    \/ f.step < 0 /\ f.cur < I32_MIN - f.step

Sign(step) == IF step > 0 THEN 1 ELSE IF step < 0 THEN -1 ELSE 0

\* the number of elements C39 gives for a call
SeriesCount(f) ==
    IF f.stop_inclusive
    THEN (f.stop - f.start) \div f.step + 1
    ELSE (f.stop - f.start - Sign(f.step)) \div f.step + 1

Between(v, a, b) == (a <= v /\ v <= b) \/ (b <= v /\ v <= a)

\* C39: for i32 arguments with a non-zero step that leads from start to stop,
\* generate_series (stop inclusive) returns the (stop - start) / step + 1
\* elements start, start + step, ..., and range (stop exclusive) the
\* (stop - start - sign(step)) / step + 1 elements of the same progression;
\* every element lies between start and stop, and stop is an element only of
\* the inclusive variant.
C39_SeriesCount ==
    (series.pc = "returned" /\ Pointing(series.start, series.stop, series.step)) =>
        LET n == SeriesCount(series)
            array == series.result.array
        IN  /\ series.result.tag = "Ok"
            /\ Len(array) = n
            /\ \A k \in 1..Len(array) :
                  /\ array[k] = series.start + (k - 1) * series.step
                  /\ Between(array[k], series.start, series.stop)
                  /\ array[k] = series.stop => series.stop_inclusive

\* the vnodes a bitmap holds
VnodeSet(bitmap) == {k \in 1..Len(bitmap) : bitmap[k]}

\* C40: for two bitmaps of equal length cache_may_stale(previous, current) is
\* false exactly when the vnodes of current are a subset of those of previous
\* (same partition, or scale-out), and true whenever current holds a vnode
\* that previous does not (scale-in).
C40_CacheMayStale ==
    vnodes.scalings > 0 =>
        /\ Len(vnodes.previous) = Len(vnodes.current)
        /\ ~vnodes.may_stale <=> VnodeSet(vnodes.current) \subseteq VnodeSet(vnodes.previous)
        /\ (\E k \in VnodeSet(vnodes.current) : k \notin VnodeSet(vnodes.previous))
              => vnodes.may_stale

\* a scaling took one vnode from the executor and gave it another
C40_Witness ==
    /\ vnodes.scalings > 0
    /\ vnodes.previous = <<TRUE, TRUE, TRUE, FALSE>>
    /\ vnodes.current = <<TRUE, TRUE, FALSE, TRUE>>
    /\ vnodes.may_stale

====
